---- MODULE Spec2Model ----
(***************************************************************************)
(* A model of AppStore (app/src/lib/stores/app-store.ts): the reentrancy   *)
(* gates around network operations, commits and Sketch-file parsing, the   *)
(* fast-forward planner, the diff loaders with their loadingDiff token,    *)
(* the compare view with its merge preview, the progress values of push,   *)
(* pull and fetch, repository selection with its three background pollers, *)
(* the policy of the background fetcher, the compare refresh with the      *)
(* diverging-branch banner, the coalescing of state-change notifications,  *)
(* the retry action of a sign-in, missing and removed repositories, and    *)
(* the rebuild of the Sketch files after checkout, pull and merge.         *)
(*                                                                         *)
(* JavaScript runs one synchronous segment at a time, so every action is   *)
(* the code between two awaits of one handler.                             *)
(***************************************************************************)
EXTENDS Integers, Sequences, FiniteSets, TLC

VARIABLES
  \* ---- gates (withPushPull, isCommitting, isParsingOrImporting) ----
  repositoryState,   \* repositoryStateCache: one slice per repository
  task,              \* the asynchronous calls in flight
  outcome,           \* how the most recent call ended
  emittedErrors,     \* errors handed to the error listeners so far
  \* ---- fastForwardBranches ----
  ff,                \* the planner's locals and its position
  gitRefs,           \* the refs on disk: tip of each local branch
  \* ---- diff loads ----
  sel,               \* changesState / commitSelection of one repository
  loads,             \* diff loads in flight
  world,             \* version of the content on disk
  nextDiffId,        \* source of the Math.random() tokens
  \* ---- compare view ----
  compareState,      \* compareState of every repository
  currentMergeTreePromise,
  cmp,               \* updateCompareToBranch calls in flight
  merges,            \* mergeTree computations in flight
  gitTip,            \* gitStore.tip of every repository
  \* ---- progress of push, pull and fetch ----
  composed,          \* the composed operation of every repository
  pushPullFetchProgress,
  \* ---- repository selection and the background pollers ----
  selectedRepository,
  currentBackgroundFetcher,
  currentPullRequestUpdater,
  currentAheadBehindUpdater,
  selecting,         \* _selectRepository calls that have not returned yet
  stoppedRuns,       \* fetches in flight that a stopped fetcher started
  fatalErrors,       \* the fatalError calls made so far
  \* ---- shouldBackgroundFetch ----
  policy,            \* the inputs of one call and its result
  \* ---- _initializeCompare and the diverging-branch banner ----
  branchCompare,     \* what _initializeCompare writes to compareState
  initializing,      \* _initializeCompare calls in flight
  \* ---- emitUpdate ----
  windowState,       \* getWindowState of the application window
  emitQueued,
  animationFrames,   \* requestAnimationFrame callbacks not run yet
  tick,              \* the emitUpdate calls of the running synchronous segment
  snapshots,         \* the snapshots handed to the UI so far
  \* ---- retry actions after a sign-in ----
  signIns,           \* the handlers of signInStore.onDidAuthenticate in flight
  received,          \* what the listeners of the emitter were handed, by event
  \* ---- missing and removed repositories ----
  repositories,      \* repositoriesStore: every repository is present, flagged missing or removed
  pathOnDisk,        \* whether the path of a repository exists
  gitStoreCache,     \* the repositories that have a GitStore in the cache
  refreshes,         \* _refreshRepository calls in flight
  removal,           \* the _removeRepositories call in flight
  \* ---- rebuilding Sketch files after checkout, pull and merge ----
  rebuilds,          \* checkouts, pulls and merges in flight, each with its Sketch files
  indicators         \* checkoutProgress and pushPullFetchProgress of the repository

gateVars == <<repositoryState, task, outcome, emittedErrors>>
ffVars == <<ff, gitRefs>>
diffVars == <<sel, loads, world, nextDiffId>>
cmpVars == <<compareState, currentMergeTreePromise, cmp, merges, gitTip>>
progVars == <<composed, pushPullFetchProgress>>
pollVars == <<selectedRepository, currentBackgroundFetcher,
              currentPullRequestUpdater, currentAheadBehindUpdater,
              selecting, stoppedRuns, fatalErrors>>
bannerVars == <<branchCompare, initializing>>
baseVars == <<gateVars, ffVars, diffVars, cmpVars, progVars, pollVars, policy>>
emitVars == <<windowState, emitQueued, animationFrames, tick, snapshots>>
retryVars == <<signIns, received>>
repoVars == <<repositories, pathOnDisk, gitStoreCache, refreshes, removal>>
rebuildVars == <<rebuilds, indicators>>
auxVars == <<bannerVars, emitVars, retryVars, repoVars, rebuildVars>>
vars == <<baseVars, auxVars>>

Repos == {"r1", "r2"}
Files == {"f1"}
Null == [null |-> TRUE]

(***************************************************************************)
(* Values the groups hold while another group's specification runs.        *)
(***************************************************************************)
GateIdle ==
  /\ repositoryState = [r \in Repos |-> [isPushPullFetchInProgress |-> FALSE,
                                         isCommitting |-> FALSE,
                                         files |-> << >>]]
  /\ task = << >>
  /\ outcome = "none"
  /\ emittedErrors = 0

FFIdle ==
  /\ ff = [pc |-> "off"]
  /\ gitRefs = << >>

DiffIdle ==
  /\ sel = [pc |-> "off"]
  /\ loads = << >>
  /\ world = 0
  /\ nextDiffId = 0

CmpIdle ==
  /\ compareState = << >>
  /\ currentMergeTreePromise = [repo |-> "none"]
  /\ cmp = << >>
  /\ merges = {}
  /\ gitTip = << >>

ProgIdle ==
  /\ composed = << >>
  /\ pushPullFetchProgress = << >>

PollIdle ==
  /\ selectedRepository = Null
  /\ currentBackgroundFetcher = Null
  /\ currentPullRequestUpdater = Null
  /\ currentAheadBehindUpdater = Null
  /\ selecting = << >>
  /\ stoppedRuns = {}
  /\ fatalErrors = {}

PolicyIdle == policy = Null

BannerIdle ==
  /\ branchCompare = Null
  /\ initializing = << >>

BaseIdle ==
  /\ GateIdle /\ FFIdle /\ DiffIdle /\ CmpIdle /\ ProgIdle /\ PollIdle
  /\ PolicyIdle

EmitIdle ==
  /\ windowState = "off"
  /\ emitQueued = FALSE
  /\ animationFrames = 0
  /\ tick = Null
  /\ snapshots = 0

RetryIdle ==
  /\ signIns = << >>
  /\ received = << >>

RepoIdle ==
  /\ repositories = << >>
  /\ pathOnDisk = << >>
  /\ gitStoreCache = {}
  /\ refreshes = << >>
  /\ removal = Null

RebuildIdle ==
  /\ rebuilds = << >>
  /\ indicators = << >>

AuxIdle == BannerIdle /\ EmitIdle /\ RetryIdle /\ RepoIdle /\ RebuildIdle

(***************************************************************************)
(* GATES: withPushPull, isCommitting, isParsingOrImporting                 *)
(***************************************************************************)
NumTasks == 2
MaxErrors == 1

Tasks == 1..NumTasks
GatedOps == {"fetch", "push", "pull"}
UngatedNetworkOps == {"fetchRefspec", "indicator"}
NetworkOps == GatedOps \cup UngatedNetworkOps
FileOps == {"isParsing", "isImporting"}

Dropped == {"droppedNetwork", "droppedCommit", "droppedFile"}
IdleTask == [op |-> "none", repo |-> "none", file |-> "none", pc |-> "idle"]
FreshFile == [isParsing |-> FALSE, isImporting |-> FALSE]
GateOthers == <<ffVars, diffVars, cmpVars, progVars, pollVars, policy, auxVars>>

InitGates ==
  /\ repositoryState = [r \in Repos |-> [isPushPullFetchInProgress |-> FALSE,
                                         isCommitting |-> FALSE,
                                         isLoadingStatus |-> FALSE,
                                         files |-> [f \in Files |-> FreshFile]]]
  /\ task = [t \in Tasks |-> IdleTask]
  /\ outcome = "none"
  /\ emittedErrors = 0

Init == InitGates /\ FFIdle /\ DiffIdle /\ CmpIdle /\ ProgIdle
  /\ PollIdle /\ PolicyIdle /\ AuxIdle

\* A gate that returns from inside its try block: the finally clears a flag
\* that another call holds.
withPushPullClearsOnReturn(t, r, op) ==
  IF repositoryState[r].isPushPullFetchInProgress
  THEN /\ repositoryState' =
            [repositoryState EXCEPT ![r].isPushPullFetchInProgress = FALSE]
       /\ outcome' = "droppedNetwork"
       /\ UNCHANGED <<task, emittedErrors>>
  ELSE /\ repositoryState' =
            [repositoryState EXCEPT ![r].isPushPullFetchInProgress = TRUE]
       /\ task' = [task EXCEPT ![t] =
                     [op |-> op, repo |-> r, file |-> "none", pc |-> "call"]]
       /\ UNCHANGED <<outcome, emittedErrors>>

\* A gate that does not look at the flag.
withPushPullNoCheck(t, r, op) ==
  /\ repositoryState' =
       [repositoryState EXCEPT ![r].isPushPullFetchInProgress = TRUE]
  /\ task' = [task EXCEPT ![t] =
                [op |-> op, repo |-> r, file |-> "none", pc |-> "call"]]
  /\ UNCHANGED <<outcome, emittedErrors>>

\* withPushPull up to the first await of fn: the flag is read and set in one
\* synchronous segment.
withPushPull(t, r, op) ==
  IF repositoryState[r].isPushPullFetchInProgress
  THEN /\ outcome' = "droppedNetwork"
       /\ UNCHANGED <<repositoryState, task, emittedErrors>>
  ELSE /\ repositoryState' =
            [repositoryState EXCEPT ![r].isPushPullFetchInProgress = TRUE]
       /\ task' = [task EXCEPT ![t] =
                     [op |-> op, repo |-> r, file |-> "none", pc |-> "call"]]
       /\ UNCHANGED <<outcome, emittedErrors>>

\* _fetch: withAuthenticatingUser, then performFetch
performFetch(t, r) ==
  /\ task[t].pc = "idle"
  /\ withPushPull(t, r, "fetch")
  /\ UNCHANGED GateOthers

\* _push: performPush shows the publish dialog when there is no remote
performPush(t, r) ==
  /\ task[t].pc = "idle"
  /\ \E remote \in {"null", "origin"} :
       IF remote = "null"
       THEN /\ outcome' = "returned"
            /\ UNCHANGED <<repositoryState, task, emittedErrors>>
       ELSE withPushPull(t, r, "push")
  /\ UNCHANGED GateOthers

\* _pull: withAuthenticatingUser, then performPull
performPull(t, r) ==
  /\ task[t].pc = "idle"
  /\ withPushPull(t, r, "pull")
  /\ UNCHANGED GateOthers

\* _fetchRefspec opts out of the gate
fetchRefspec(t, r) ==
  /\ task[t].pc = "idle"
  /\ task' = [task EXCEPT ![t] =
                [op |-> "fetchRefspec", repo |-> r, file |-> "none", pc |-> "call"]]
  /\ UNCHANGED <<repositoryState, outcome, emittedErrors, GateOthers>>

\* refreshIndicatorForRepository, when shouldBackgroundFetch says so: an
\* ungated gitStore.fetch
refreshIndicatorForRepository(t, r) ==
  /\ task[t].pc = "idle"
  /\ \E shouldBackgroundFetch \in BOOLEAN :
       IF shouldBackgroundFetch
       THEN /\ task' = [task EXCEPT ![t] =
                 [op |-> "indicator", repo |-> r, file |-> "none", pc |-> "call"]]
            /\ UNCHANGED outcome
       ELSE /\ outcome' = "returned"
            /\ UNCHANGED task
  /\ UNCHANGED <<repositoryState, emittedErrors, GateOthers>>

\* A gate that starts fn whatever the flag says.
isCommittingNoCheck(t, r) ==
  /\ task[t].pc = "idle"
  /\ repositoryState' = [repositoryState EXCEPT ![r].isCommitting = TRUE]
  /\ task' = [task EXCEPT ![t] =
                [op |-> "commit", repo |-> r, file |-> "none", pc |-> "call"]]
  /\ UNCHANGED <<outcome, emittedErrors>>
  /\ UNCHANGED GateOthers

\* isCommitting up to the await of fn (_commitIncludedChanges): a call that
\* finds the flag set returns undefined, and _commitIncludedChanges returns
\* false without touching the store (outcome "droppedCommit").
isCommitting(t, r) ==
  /\ task[t].pc = "idle"
  /\ IF repositoryState[r].isCommitting
     THEN /\ outcome' = "droppedCommit"
          /\ UNCHANGED <<repositoryState, task, emittedErrors>>
     ELSE /\ repositoryState' = [repositoryState EXCEPT ![r].isCommitting = TRUE]
          /\ task' = [task EXCEPT ![t] =
                        [op |-> "commit", repo |-> r, file |-> "none", pc |-> "call"]]
          /\ UNCHANGED <<outcome, emittedErrors>>
  /\ UNCHANGED GateOthers

\* isParsingOrImporting up to the await of fn (_parseSketchFile,
\* _importSketchFile, and _loadStatus for a modified file)
isParsingOrImporting(t, r, f, key) ==
  /\ task[t].pc = "idle"
  /\ LET files == repositoryState[r].files
     IN IF f \notin DOMAIN files \/ files[f].isParsing \/ files[f].isImporting
        THEN /\ outcome' = "droppedFile"
             /\ UNCHANGED <<repositoryState, task, emittedErrors>>
        ELSE /\ repositoryState' =
                  [repositoryState EXCEPT ![r].files[f][key] = TRUE]
             /\ task' = [task EXCEPT ![t] =
                           [op |-> key, repo |-> r, file |-> f, pc |-> "call"]]
             /\ UNCHANGED <<outcome, emittedErrors>>
  /\ UNCHANGED GateOthers

\* _loadStatus replaces kactus.files by the list getKactusStatus returns
loadStatus(r) ==
  /\ \E present \in SUBSET Files :
       repositoryState' =
         [repositoryState EXCEPT ![r].files = [f \in present |-> FreshFile]]
  /\ UNCHANGED <<task, outcome, emittedErrors, GateOthers>>

\* The finally block of the gate that task t went through; an ungated call
\* has none.
finally(t) ==
  LET r == task[t].repo
      op == task[t].op
      f == task[t].file
  IN CASE op \in GatedOps ->
            [repositoryState EXCEPT ![r].isPushPullFetchInProgress = FALSE]
       [] op = "commit" ->
            [repositoryState EXCEPT ![r].isCommitting = FALSE]
       [] op \in FileOps ->
            [repositoryState EXCEPT ![r].files =
               [g \in DOMAIN @ |-> IF g = f THEN [@[g] EXCEPT ![op] = FALSE]
                                            ELSE @[g]]]
       [] OTHER -> repositoryState

\* The command-layer call of t ends well; what follows it (refresh, status
\* reload, fast-forward) starts.
commandSettles(t) ==
  /\ task[t].pc = "call"
  /\ task[t].op \in GatedOps \cup FileOps \cup {"fetchRefspec"}
  /\ task' = [task EXCEPT ![t].pc = "post"]
  /\ UNCHANGED <<repositoryState, outcome, emittedErrors, GateOthers>>

\* The command-layer call of t fails inside performFailableOperation: the
\* error is emitted and swallowed. In performPush and _commitIncludedChanges
\* the rest of the body is inside the failable operation, so the body is over.
commandFails(t) ==
  /\ task[t].pc = "call"
  /\ emittedErrors < MaxErrors
  /\ emittedErrors' = emittedErrors + 1
  /\ IF task[t].op \in {"push", "commit", "indicator"}
     THEN /\ repositoryState' = finally(t)
          /\ task' = [task EXCEPT ![t] = IdleTask]
          /\ outcome' = "returned"
     ELSE /\ task' = [task EXCEPT ![t].pc = "post"]
          /\ UNCHANGED <<repositoryState, outcome>>
  /\ UNCHANGED GateOthers

\* The body of t returns.
bodyReturns(t) ==
  /\ \/ task[t].pc = "post"
     \/ task[t].pc = "call" /\ task[t].op \in {"commit", "indicator"}
  /\ repositoryState' = finally(t)
  /\ task' = [task EXCEPT ![t] = IdleTask]
  /\ outcome' = "returned"
  /\ UNCHANGED <<emittedErrors, GateOthers>>

\* A try block without its finally.
bodyThrowsNoFinally(t) ==
  /\ task[t].pc \in {"call", "post"}
  /\ task' = [task EXCEPT ![t] = IdleTask]
  /\ outcome' = "threw"
  /\ UNCHANGED <<repositoryState, emittedErrors, GateOthers>>

\* The body of t throws (an unborn or detached tip, no remote, a failing
\* refresh or updateRef): the exception leaves through the finally.
bodyThrows(t) ==
  /\ task[t].pc \in {"call", "post"}
  /\ repositoryState' = finally(t)
  /\ task' = [task EXCEPT ![t] = IdleTask]
  /\ outcome' = "threw"
  /\ UNCHANGED <<emittedErrors, GateOthers>>

Next ==
  \/ \E t \in Tasks, r \in Repos : performFetch(t, r)
  \/ \E t \in Tasks, r \in Repos : performPush(t, r)
  \/ \E t \in Tasks, r \in Repos : performPull(t, r)
  \/ \E t \in Tasks, r \in Repos : fetchRefspec(t, r)
  \/ \E t \in Tasks, r \in Repos : refreshIndicatorForRepository(t, r)
  \/ \E t \in Tasks, r \in Repos : isCommitting(t, r)
  \/ \E t \in Tasks, r \in Repos, f \in Files, key \in FileOps :
       isParsingOrImporting(t, r, f, key)
  \/ \E r \in Repos : loadStatus(r)
  \/ \E t \in Tasks : commandSettles(t)
  \/ \E t \in Tasks : commandFails(t)
  \/ \E t \in Tasks : bodyReturns(t)
  \/ \E t \in Tasks : bodyThrows(t)

Spec == Init /\ [][Next]_vars

(***************************************************************************)
(* Properties of the gates                                                 *)
(***************************************************************************)
InFlight(ops, r) ==
  {t \in DOMAIN task : task[t].pc # "idle" /\ task[t].op \in ops /\ task[t].repo = r}

NetworkCalls(ops, r) == {t \in InFlight(ops, r) : task[t].pc = "call"}

\* C1: for every repository at most one body started through withPushPull
\* (fetch, push, pull) is executing, and while one is executing the flag is
\* set, so every further request is turned away.
C1_OneGatedNetworkOperation ==
  \A r \in Repos :
    /\ Cardinality(InFlight(GatedOps, r)) <= 1
    /\ InFlight(GatedOps, r) # {} => repositoryState[r].isPushPullFetchInProgress

\* One gated body is running and a second request has just been turned away.
C1_Witness ==
  \E r \in Repos :
    /\ Cardinality(InFlight(GatedOps, r)) = 1
    /\ outcome = "droppedNetwork"
    /\ \A t \in DOMAIN task : task[t].pc # "idle" => task[t].op \in GatedOps

\* C2 as claimed: no two command-layer network calls of any entry point run
\* at the same time against one repository.
C2_NoConcurrentNetworkCalls ==
  \A r \in Repos : Cardinality(NetworkCalls(NetworkOps, r)) <= 1

\* C2 amended: of two network calls running at the same time against one
\* repository at most one was issued through withPushPull; the other is a
\* _fetchRefspec or an indicator refresh, which take no gate.
C2_OnlyUngatedCallsOverlap ==
  \A r \in Repos : \A t1, t2 \in NetworkCalls(NetworkOps, r) :
    t1 # t2 => task[t1].op \in UngatedNetworkOps \/ task[t2].op \in UngatedNetworkOps

\* A gated network call and an ungated one are running against one repository.
C2_Witness ==
  \E r \in Repos :
    /\ NetworkCalls(GatedOps, r) # {}
    /\ NetworkCalls(UngatedNetworkOps, r) # {}

\* C3: the step that turns a request away at a held gate changes neither the
\* repository state nor the calls in flight (nothing is started or queued)
\* and emits no error.
C3_DroppedRequestChangesNothing ==
  [][outcome' \in Dropped /\ outcome' # outcome =>
       /\ repositoryState' = repositoryState
       /\ task' = task
       /\ emittedErrors' = emittedErrors]_vars

\* A request has been turned away while the call holding the gate is running.
C3_Witness ==
  \E r \in Repos :
    \/ outcome = "droppedNetwork" /\ repositoryState[r].isPushPullFetchInProgress
    \/ outcome = "droppedCommit" /\ repositoryState[r].isCommitting
    \/ /\ outcome = "droppedFile"
       /\ \E f \in DOMAIN repositoryState[r].files :
            repositoryState[r].files[f].isParsing

\* C4: a gate flag is set only while a call that went through that gate is
\* in flight: each call clears its flag when it ends, by return or by throw.
C4_FlagsClearedWhenNothingInFlight ==
  \A r \in Repos :
    /\ repositoryState[r].isPushPullFetchInProgress => InFlight(GatedOps, r) # {}
    /\ repositoryState[r].isCommitting => InFlight({"commit"}, r) # {}
    /\ \A f \in DOMAIN repositoryState[r].files : \A key \in FileOps :
         repositoryState[r].files[f][key] =>
           \E t \in InFlight({key}, r) : task[t].file = f

\* A body has thrown, nothing is in flight and every flag is clear.
C4_Witness ==
  /\ outcome = "threw"
  /\ \A t \in DOMAIN task : task[t].pc = "idle"
  /\ \A r \in Repos :
       /\ ~repositoryState[r].isPushPullFetchInProgress
       /\ ~repositoryState[r].isCommitting

(***************************************************************************)
(* FAST-FORWARD PLANNER: fastForwardBranches                               *)
(***************************************************************************)
FastForwardBranchesThreshold == 20
NumVaried == 2     \* branches whose shape is chosen freely
MaxOver == 1       \* how far past the threshold the branch count goes

FFOthers == <<gateVars, diffVars, cmpVars, progVars, pollVars, policy, auxVars>>

\* The commits of one branch and its upstream: root <- base <- u1, base <- l1.
Ancestors(c) ==
  CASE c = "root" -> {"root"}
    [] c = "base" -> {"root", "base"}
    [] c = "u1" -> {"root", "base", "u1"}
    [] c = "l1" -> {"root", "base", "l1"}

\* git rev-list --left-right --count local...upstream
AheadBehind(ref) ==
  [ahead |-> Cardinality(Ancestors(ref.local) \ Ancestors(ref.upstream)),
   behind |-> Cardinality(Ancestors(ref.upstream) \ Ancestors(ref.local))]

\* The shapes a branch is drawn from: the ref on disk, the tip the snapshot in
\* branchesState recorded for it, and whether its ahead/behind can be computed.
BranchShape(kind) ==
  CASE kind = "untracked" ->
         [local |-> "base", upstream |-> "none", tip |-> "base", ab |-> TRUE]
    [] kind = "equal" ->
         [local |-> "u1", upstream |-> "u1", tip |-> "u1", ab |-> TRUE]
    [] kind = "behind" ->
         [local |-> "base", upstream |-> "u1", tip |-> "base", ab |-> TRUE]
    [] kind = "behind2" ->
         [local |-> "root", upstream |-> "u1", tip |-> "root", ab |-> TRUE]
    [] kind = "ahead" ->
         [local |-> "l1", upstream |-> "base", tip |-> "l1", ab |-> TRUE]
    [] kind = "diverged" ->
         [local |-> "l1", upstream |-> "u1", tip |-> "l1", ab |-> TRUE]
    [] kind = "behindNoAheadBehind" ->
         [local |-> "base", upstream |-> "u1", tip |-> "base", ab |-> FALSE]
    [] kind = "behindStaleTip" ->
         [local |-> "base", upstream |-> "u1", tip |-> "root", ab |-> TRUE]

Kinds == {"untracked", "equal", "behind", "behind2", "ahead", "diverged",
          "behindNoAheadBehind", "behindStaleTip"}
FillerKinds == {"behind", "untracked"}
BranchCounts ==
  {NumVaried} \cup
  ((FastForwardBranchesThreshold - 1)..(FastForwardBranchesThreshold + MaxOver))

\* branch.upstream != null, branch.name !== currentBranchName
eligibleForFastForward(b, currentBranchName) ==
  b.upstream # "none" /\ b.name # currentBranchName

InitFF ==
  \E n \in BranchCounts, kinds \in [1..NumVaried -> Kinds], fill \in FillerKinds,
     cur \in 0..(NumVaried + 1), def \in 0..NumVaried :
    LET shape(i) == BranchShape(IF i <= NumVaried THEN kinds[i] ELSE fill)
    IN /\ cur <= n
       /\ gitRefs = [i \in 1..n |->
                       [local |-> shape(i).local, upstream |-> shape(i).upstream]]
       /\ ff = [pc |-> "start",
                allBranches |-> [i \in 1..n |->
                   [name |-> i,
                    upstream |-> IF shape(i).upstream = "none" THEN "none"
                                                                ELSE "origin",
                    tip |-> shape(i).tip]],
                tip |-> cur,
                head |-> cur,
                defaultBranch |-> def,
                noAheadBehind |-> {i \in 1..NumVaried : ~shape(i).ab},
                before |-> [i \in 1..n |->
                   [local |-> shape(i).local, upstream |-> shape(i).upstream]],
                eligibleBranches |-> << >>]

\* The narrowing test with > in place of >=.
narrowToDefaultAbove(eligibleBranches) ==
  Len(eligibleBranches) > FastForwardBranchesThreshold

narrowToDefault(eligibleBranches) ==
  Len(eligibleBranches) >= FastForwardBranchesThreshold

\* fastForwardBranches up to the first await: the eligible branches, narrowed
\* to the default branch when there are too many.
fastForwardBranches ==
  /\ ff.pc = "start"
  /\ LET currentBranchName == ff.tip
         eligibleBranches ==
           SelectSeq(ff.allBranches,
                     LAMBDA b : eligibleForFastForward(b, currentBranchName))
         narrowed ==
           IF narrowToDefault(eligibleBranches)
           THEN IF /\ ff.defaultBranch # 0
                   /\ eligibleForFastForward(ff.allBranches[ff.defaultBranch],
                                             currentBranchName)
                THEN <<ff.allBranches[ff.defaultBranch]>>
                ELSE << >>
           ELSE eligibleBranches
     IN ff' = [ff EXCEPT !.eligibleBranches = narrowed,
                         !.pc = IF narrowed = << >> THEN "done" ELSE "aheadBehind"]
  /\ UNCHANGED <<gitRefs, FFOthers>>

\* The loop goes on with the next branch.
nextBranch ==
  [ff EXCEPT !.eligibleBranches = Tail(@),
             !.pc = IF Tail(ff.eligibleBranches) = << >> THEN "done"
                                                       ELSE "aheadBehind"]

\* getBranchAheadBehind: null when the range cannot be computed
getBranchAheadBehind(branch) ==
  IF branch.name \in ff.noAheadBehind THEN Null
                                      ELSE AheadBehind(gitRefs[branch.name])

\* The test without ahead === 0.
shouldFastForwardAnyBehind(aheadBehind) == aheadBehind.behind > 0

shouldFastForward(aheadBehind) ==
  aheadBehind.ahead = 0 /\ aheadBehind.behind > 0

\* A loop that ends at the first branch without ahead/behind.
aheadBehindArrivesReturnOnNull ==
  /\ ff.pc = "aheadBehind"
  /\ LET aheadBehind == getBranchAheadBehind(Head(ff.eligibleBranches))
     IN ff' = IF aheadBehind = Null THEN [ff EXCEPT !.pc = "done"]
              ELSE IF shouldFastForward(aheadBehind)
                   THEN [ff EXCEPT !.pc = "updateRef"]
                   ELSE nextBranch
  /\ UNCHANGED <<gitRefs, FFOthers>>

\* The result of getBranchAheadBehind arrives for the branch at the head of
\* the loop.
aheadBehindArrives ==
  /\ ff.pc = "aheadBehind"
  /\ LET aheadBehind == getBranchAheadBehind(Head(ff.eligibleBranches))
     IN ff' = IF aheadBehind = Null THEN nextBranch
              ELSE IF shouldFastForward(aheadBehind)
                   THEN [ff EXCEPT !.pc = "updateRef"]
                   ELSE nextBranch
  /\ UNCHANGED <<gitRefs, FFOthers>>

\* updateRef(repository, localRef, branch.tip.sha, upstreamRef): git update-ref
\* moves the ref to the upstream tip if it still has the old value, and fails
\* otherwise; the failure leaves fastForwardBranches as an exception.
updateRef ==
  /\ ff.pc = "updateRef"
  /\ LET branch == Head(ff.eligibleBranches)
     IN IF gitRefs[branch.name].local = branch.tip
        THEN /\ gitRefs' = [gitRefs EXCEPT ![branch.name].local =
                              gitRefs[branch.name].upstream]
             /\ ff' = nextBranch
        ELSE /\ ff' = [ff EXCEPT !.pc = "threw"]
             /\ UNCHANGED gitRefs
  /\ UNCHANGED FFOthers

NextFF ==
  \/ fastForwardBranches
  \/ aheadBehindArrives
  \/ updateRef

InitFastForward == GateIdle /\ InitFF /\ DiffIdle /\ CmpIdle /\ ProgIdle
  /\ PollIdle /\ PolicyIdle /\ AuxIdle

SpecFF == InitFastForward /\ [][NextFF]_vars

\* _checkoutBranch while the planner waits in its loop: git checks out another
\* local branch.  No ref moves, and the planner keeps the currentBranchName
\* it read before the loop.  Checkout does not go through withPushPull.
checkoutBranch(b) ==
  /\ ff.pc \in {"aheadBehind", "updateRef"}
  /\ b \in DOMAIN ff.allBranches
  /\ b # ff.head
  /\ ff' = [ff EXCEPT !.head = b]
  /\ UNCHANGED <<gitRefs, FFOthers>>

NextFFCheckout ==
  \/ fastForwardBranches
  \/ aheadBehindArrives
  \/ updateRef
  \/ \E b \in 1..NumVaried : checkoutBranch(b)

SpecFFCheckout == InitFastForward /\ [][NextFFCheckout]_vars

(***************************************************************************)
(* Properties of the fast-forward planner                                  *)
(***************************************************************************)
BranchNames == IF ff.pc = "off" THEN {} ELSE DOMAIN ff.allBranches

\* Local branches that track a remote branch and are not checked out.
EligibleNames ==
  {b \in BranchNames : ff.allBranches[b].upstream # "none" /\ b # ff.tip}

\* The branches the planner examines.
ExaminedNames ==
  IF Cardinality(EligibleNames) >= FastForwardBranchesThreshold
  THEN EligibleNames \cap {ff.defaultBranch}
  ELSE EligibleNames

WasBehindOnly(b) ==
  /\ ff.before[b].upstream # "none"
  /\ AheadBehind(ff.before[b]).ahead = 0
  /\ AheadBehind(ff.before[b]).behind > 0

Moved(b) == gitRefs[b] # ff.before[b]

\* C8: a step of the planner changes the ref of a local branch only if that
\* branch has no commit its upstream lacks and is behind it, and the step
\* does nothing but set the local ref to the upstream tip.
C8_OnlyBehindBranchesMove ==
  [][\A b \in DOMAIN gitRefs :
       gitRefs'[b] # gitRefs[b] =>
         /\ AheadBehind(gitRefs[b]).ahead = 0
         /\ AheadBehind(gitRefs[b]).behind > 0
         /\ gitRefs'[b] = [gitRefs[b] EXCEPT !.local = gitRefs[b].upstream]]_vars

\* The planner has finished, it moved a branch, and an examined branch that
\* has commits of its own (diverged from its upstream) is where it was.
C8_Witness ==
  /\ ff.pc = "done"
  /\ \E b \in BranchNames : Moved(b)
  /\ \E b \in ExaminedNames :
       /\ AheadBehind(ff.before[b]).ahead > 0
       /\ AheadBehind(ff.before[b]).behind > 0
       /\ ~Moved(b)

\* C9 as claimed: after the planner has run, every local branch that was
\* behind its upstream with no commits of its own is at the upstream tip.
C9_EveryBehindBranchMoved ==
  ff.pc = "done" =>
    \A b \in BranchNames :
      WasBehindOnly(b) => gitRefs[b].local = ff.before[b].upstream

\* C9 amended: after the planner has run to its end, every branch it examined
\* (tracking a remote, not checked out, and only the default branch when 20
\* or more are eligible) whose ahead/behind was computed as ahead = 0 and
\* behind > 0 is at the upstream tip.
C9_EveryExaminedBehindBranchMoved ==
  ff.pc = "done" =>
    \A b \in ExaminedNames :
      WasBehindOnly(b) /\ b \notin ff.noAheadBehind =>
        gitRefs[b].local = ff.before[b].upstream

\* The planner has finished: an examined branch that was behind is at its
\* upstream tip, and the checked-out branch, also behind, is where it was.
C9_Witness ==
  /\ ff.pc = "done"
  /\ \E b \in ExaminedNames :
       WasBehindOnly(b) /\ gitRefs[b].local = ff.before[b].upstream
  /\ ff.tip \in BranchNames
  /\ WasBehindOnly(ff.tip)
  /\ ~Moved(ff.tip)

PlannedNames(f) == {f.eligibleBranches[i].name : i \in DOMAIN f.eligibleBranches}

\* C11 as claimed: the first step of the planner narrows the eligible set to
\* the default branch exactly when more than 20 branches are eligible; with
\* 20 or fewer it plans to examine every eligible branch.
C11_NarrowsOnlyAboveThreshold ==
  [][ff.pc = "start" =>
       PlannedNames(ff') =
         IF Cardinality(EligibleNames) > FastForwardBranchesThreshold
         THEN EligibleNames \cap {ff.defaultBranch}
         ELSE EligibleNames]_vars

\* C12 as claimed: no step of the planner changes the ref of the branch that
\* is checked out at that moment, nor the ref of a branch that tracks no
\* remote branch.
C12_NeverMovesCurrentOrUntracked ==
  [][\A b \in DOMAIN gitRefs :
       gitRefs'[b] # gitRefs[b] =>
         b # ff.head /\ gitRefs[b].upstream # "none"]_vars

(***************************************************************************)
(* DIFF LOADS: _changeFileSelection, updateChangesDiffForCurrentSelection, *)
(* updateDiffWithSketchPreview                                             *)
(***************************************************************************)
MaxDiffIds == 3    \* tokens (and selection objects) minted in one run
MaxWorld == 1      \* times the working directory changes on disk

DiffOthers == <<gateVars, ffVars, cmpVars, progVars, pollVars, policy, auxVars>>

Shas == {"s1", "s2"}
FileIds == {"a", "s"}          \* "s" is a Sketch file: its diff has previews
NoDiff == [kind |-> "null"]
DiffKind(file) == IF file = "s" THEN "Sketch" ELSE "Text"

InitDiff ==
  /\ sel = [commitSelection |->
              [sha |-> "none", file |-> "none", changedFiles |-> << >>,
               diff |-> NoDiff, loadingDiff |-> 0],
            changesState |->
              [selectedFileIDs |-> << >>, selectedSketchPart |-> 0,
               diff |-> NoDiff, loadingDiff |-> 0,
               workingDirectory |-> FileIds]]
  /\ loads = << >>
  /\ world = 0
  /\ nextDiffId = 0

InitDiffLoads == GateIdle /\ FFIdle /\ InitDiff /\ CmpIdle /\ ProgIdle
  /\ PollIdle /\ PolicyIdle /\ AuxIdle

\* The load diffId, started for slice sl
NewLoad(diffId, sl, file, part, sha, kind) ==
  diffId :> [slice |-> sl, file |-> file, part |-> part, sha |-> sha,
             kind |-> kind, from |-> world, pc |-> "loading",
             preview |-> IF kind = "Sketch" THEN "pending" ELSE "none"]

\* A load whose diff has arrived stays only while its preview callback is due.
Landed(id) ==
  IF loads[id].preview = "pending"
  THEN [loads EXCEPT ![id].pc = "landed"]
  ELSE [i \in DOMAIN loads \ {id} |-> loads[i]]

\* _changeCommitSelection
changeCommitSelection(sha) ==
  /\ sel.commitSelection.sha # sha
  /\ sel' = [sel EXCEPT !.commitSelection =
               [sha |-> sha, file |-> "none", changedFiles |-> << >>,
                diff |-> NoDiff, loadingDiff |-> 0]]
  /\ UNCHANGED <<loads, world, nextDiffId, DiffOthers>>

\* _changeFileSelection up to the await of getCommitDiff
changeFileSelection(file) ==
  /\ nextDiffId < MaxDiffIds
  /\ nextDiffId' = nextDiffId + 1
  /\ LET diffId == nextDiffId + 1
         sha == sel.commitSelection.sha
     IN IF sha = "none"
        THEN /\ sel' = [sel EXCEPT !.commitSelection.file = file,
                                   !.commitSelection.diff = NoDiff,
                                   !.commitSelection.loadingDiff = 0]
             /\ UNCHANGED loads
        ELSE /\ sel' = [sel EXCEPT !.commitSelection.file = file,
                                   !.commitSelection.diff = NoDiff,
                                   !.commitSelection.loadingDiff = diffId]
             /\ loads' = loads @@ NewLoad(diffId, "commitSelection", file, 0,
                                          sha, DiffKind(file))
  /\ UNCHANGED <<world, DiffOthers>>

\* _changeFileSelection after the await: the diff of a commit arrives
commitDiffArrives(id) ==
  /\ id \in DOMAIN loads
  /\ loads[id].slice = "commitSelection"
  /\ loads[id].pc = "loading"
  /\ loads' = Landed(id)
  /\ LET l == loads[id]
         cs == sel.commitSelection
         diff == [kind |-> l.kind, of |-> l.file, ver |-> 0, previews |-> FALSE]
     IN IF cs.sha # l.sha \/ cs.file = "none" \/ cs.file # l.file
        THEN UNCHANGED sel
        ELSE sel' = [sel EXCEPT !.commitSelection.diff = diff,
                                !.commitSelection.loadingDiff =
                                   IF diff.kind # "Sketch" THEN 0 ELSE @]
  /\ UNCHANGED <<world, nextDiffId, DiffOthers>>

\* updateChangesDiffForCurrentSelection up to its await, run on the changes
\* state cs that its caller has just written
updateChangesDiffForCurrentSelection(cs) ==
  LET diffId == nextDiffId + 1
      id == IF cs.selectedFileIDs = << >> THEN "none" ELSE cs.selectedFileIDs[1]
      selectedFile == IF id \in cs.workingDirectory THEN id ELSE "none"
  IN IF Len(cs.selectedFileIDs) > 1
     THEN /\ sel' = [sel EXCEPT !.changesState = [cs EXCEPT !.diff = NoDiff]]
          /\ UNCHANGED <<loads, nextDiffId>>
     ELSE IF selectedFile # "none"
     THEN /\ nextDiffId < MaxDiffIds
          /\ nextDiffId' = diffId
          /\ sel' = [sel EXCEPT !.changesState =
                       [cs EXCEPT !.loadingDiff = diffId]]
          /\ loads' = loads @@ NewLoad(diffId, "changesState", id, 0, "none",
                                       DiffKind(selectedFile))
     ELSE IF cs.selectedSketchPart # 0
     THEN /\ nextDiffId < MaxDiffIds
          /\ nextDiffId' = diffId
          /\ sel' = [sel EXCEPT !.changesState =
                       [cs EXCEPT !.loadingDiff = diffId]]
          /\ loads' = loads @@ NewLoad(diffId, "changesState", "none",
                                       cs.selectedSketchPart, "none", "Sketch")
     ELSE /\ sel' = [sel EXCEPT !.changesState = [cs EXCEPT !.diff = NoDiff]]
          /\ UNCHANGED <<loads, nextDiffId>>

\* _changeChangesSelection
changeChangesSelection(files) ==
  /\ updateChangesDiffForCurrentSelection(
       [sel.changesState EXCEPT !.selectedFileIDs = files,
                                !.selectedSketchPart = 0])
  /\ UNCHANGED <<world, DiffOthers>>

\* _changeSketchPartSelection: a new { id, type } object, or null
changeSketchPartSelection(selected) ==
  /\ IF selected
     THEN /\ nextDiffId + 1 < MaxDiffIds
          /\ \E n \in {nextDiffId + 2} :
               /\ updateChangesDiffForCurrentSelection(
                    [sel.changesState EXCEPT !.selectedFileIDs = << >>,
                                             !.selectedSketchPart = n])
     ELSE updateChangesDiffForCurrentSelection(
            [sel.changesState EXCEPT !.selectedFileIDs = << >>,
                                     !.selectedSketchPart = 0])
  /\ UNCHANGED <<world, DiffOthers>>

\* _loadStatus: the working directory has changed on disk; the new status
\* replaces the file list and the diff of the selection is loaded again
loadStatusChanges(files) ==
  /\ world < MaxWorld
  /\ world' = world + 1
  /\ updateChangesDiffForCurrentSelection(
       [sel.changesState EXCEPT !.workingDirectory = files])
  /\ UNCHANGED DiffOthers

\* updateChangesDiffForCurrentSelection after the await: the diff of the
\* working directory, read at some moment of the load, arrives
changesDiffArrives(id) ==
  /\ id \in DOMAIN loads
  /\ loads[id].slice = "changesState"
  /\ loads[id].pc = "loading"
  /\ loads' = Landed(id)
  /\ \E ver \in loads[id].from..world :
       LET l == loads[id]
           cs == sel.changesState
           diff == [kind |-> l.kind,
                    of |-> IF l.part # 0 THEN "part" ELSE l.file,
                    ver |-> ver, previews |-> FALSE]
           selectedFileID ==
             IF cs.selectedFileIDs = << >> THEN "none" ELSE cs.selectedFileIDs[1]
           selectedSketchPart == cs.selectedSketchPart
       IN IF Len(cs.selectedFileIDs) > 1
          THEN UNCHANGED sel
          ELSE IF /\ selectedFileID = "none" \/ selectedFileID # l.file
                  /\ selectedSketchPart = 0 \/ selectedSketchPart # l.part
          THEN UNCHANGED sel
          ELSE IF selectedFileID # "none"
          THEN IF selectedFileID \notin cs.workingDirectory
               THEN sel' = [sel EXCEPT !.changesState.loadingDiff = 0]
               ELSE sel' = [sel EXCEPT !.changesState.diff = diff,
                                       !.changesState.loadingDiff =
                                          IF diff.kind # "Sketch" THEN 0 ELSE @]
          ELSE sel' = [sel EXCEPT !.changesState.diff = diff,
                                  !.changesState.loadingDiff =
                                     IF diff.kind # "Sketch" THEN 0 ELSE @]
  /\ UNCHANGED <<world, nextDiffId, DiffOthers>>

\* The callback updateDiffWithSketchPreview returns, called with the previews
\* of load id: it gives up on another token, runs again 100 ms later while the
\* slice has no diff, and merges the previews into a Sketch diff otherwise.
sketchPreviewCallback(id) ==
  /\ id \in DOMAIN loads
  /\ loads[id].preview = "pending"
  /\ LET sl == loads[id].slice
         stateBeforeUpdate == sel[sl]
         over == IF loads[id].pc = "loading"
                 THEN [loads EXCEPT ![id].preview = "none"]
                 ELSE [i \in DOMAIN loads \ {id} |-> loads[i]]
     IN IF stateBeforeUpdate.loadingDiff # id
        THEN loads' = over /\ UNCHANGED sel
        ELSE IF stateBeforeUpdate.diff = NoDiff
        THEN UNCHANGED <<loads, sel>>
        ELSE /\ loads' = over
             /\ sel' = [sel EXCEPT ![sl].loadingDiff = 0,
                                   ![sl].diff =
                                      IF @.kind # "Sketch" THEN NoDiff
                                      ELSE [@ EXCEPT !.previews = TRUE]]
  /\ UNCHANGED <<world, nextDiffId, DiffOthers>>

NextDiff ==
  \/ \E sha \in Shas : changeCommitSelection(sha)
  \/ \E file \in FileIds : changeFileSelection(file)
  \/ \E id \in DOMAIN loads : commitDiffArrives(id)
  \/ \E files \in {<< >>, <<"a">>, <<"s">>, <<"a", "s">>} :
       changeChangesSelection(files)
  \/ \E selected \in BOOLEAN : changeSketchPartSelection(selected)
  \/ \E files \in SUBSET FileIds : loadStatusChanges(files)
  \/ \E id \in DOMAIN loads : changesDiffArrives(id)
  \/ \E id \in DOMAIN loads : sketchPreviewCallback(id)

SpecDiff == InitDiffLoads /\ [][NextDiff]_vars

(***************************************************************************)
(* Properties of the diff loads                                            *)
(***************************************************************************)
\* The slice still records the token of load id and still selects what the
\* load was started for.
StillCurrent(id) ==
  LET l == loads[id]
      st == sel[l.slice]
  IN /\ st.loadingDiff = id
     /\ IF l.slice = "commitSelection"
        THEN st.sha = l.sha /\ st.file = l.file
        ELSE IF l.part # 0
        THEN st.selectedFileIDs = << >> /\ st.selectedSketchPart = l.part
        ELSE st.selectedFileIDs = <<l.file>>

DiffArrives(id) ==
  /\ loads[id].pc = "loading"
  /\ id \notin DOMAIN loads' \/ loads'[id].pc = "landed"

\* C5: a diff load that completes when its token is no longer the one in the
\* slice, or when its file or commit is no longer the selection, leaves the
\* commit selection and the changes state as they are.
C5_StaleDiffLoadChangesNothing ==
  [][\A id \in DOMAIN loads :
       DiffArrives(id) /\ ~StillCurrent(id) => sel' = sel]_vars

(***************************************************************************)
(* COMPARE VIEW: _executeCompare, updateCompareToBranch, the merge preview *)
(***************************************************************************)
NumCompareCalls == 2   \* updateCompareToBranch calls in flight at a time

CmpOthers == <<gateVars, ffVars, diffVars, progVars, pollVars, policy, auxVars>>

CompareCalls == 1..NumCompareCalls
Branches == {"b1", "b2"}
Tips == {"t1", "detached"}
NoPromise == [repo |-> "none"]
IdleCall == [repo |-> "none", branch |-> "none"]
History == [kind |-> "History"]
NoMergeStatus == [kind |-> "null"]
Loading == [kind |-> "Loading"]

InitCmp ==
  /\ compareState = [r \in Repos |-> [formState |-> History,
                                      mergeStatus |-> NoMergeStatus]]
  /\ currentMergeTreePromise = NoPromise
  /\ cmp = [c \in CompareCalls |-> IdleCall]
  /\ merges = {}
  /\ gitTip = [r \in Repos |-> "t1"]

InitCompare == GateIdle /\ FFIdle /\ DiffIdle /\ InitCmp /\ ProgIdle
  /\ PollIdle /\ PolicyIdle /\ AuxIdle

\* updateCompareToBranch up to the await of gitStore.getCompareCommits
updateCompareToBranch(c, r, branch) ==
  /\ cmp[c] = IdleCall
  /\ cmp' = [cmp EXCEPT ![c] = [repo |-> r, branch |-> branch]]
  /\ UNCHANGED <<compareState, currentMergeTreePromise, merges, gitTip, CmpOthers>>

\* A test that never sees the pending promise.
mergeTreePendingNever == FALSE

\* this.currentMergeTreePromise != null
mergeTreePending == currentMergeTreePromise # NoPromise

\* updateCompareToBranch after the await: the commits of the comparison have
\* arrived, or null
compareArrives(c, found, behind) ==
  /\ cmp[c] # IdleCall
  /\ cmp' = [cmp EXCEPT ![c] = IdleCall]
  /\ LET r == cmp[c].repo
         branch == cmp[c].branch
         tip == gitTip[r]
         formState == [kind |-> "Compare", comparisonBranch |-> branch,
                       behind |-> behind]
         mergeTreePromise == [repo |-> r, tip |-> tip, branch |-> branch]
     IN IF ~found
        THEN UNCHANGED <<compareState, currentMergeTreePromise, merges>>
        ELSE IF mergeTreePending
        THEN /\ compareState' = [compareState EXCEPT ![r] =
                  [formState |-> formState, mergeStatus |-> Loading]]
             /\ UNCHANGED <<currentMergeTreePromise, merges>>
        ELSE IF tip # "detached" /\ behind > 0
        THEN /\ compareState' = [compareState EXCEPT ![r] =
                  [formState |-> formState, mergeStatus |-> Loading]]
             /\ merges' = merges \cup {mergeTreePromise}
             /\ currentMergeTreePromise' = mergeTreePromise
        ELSE /\ compareState' = [compareState EXCEPT ![r] =
                  [formState |-> formState, mergeStatus |-> NoMergeStatus]]
             /\ UNCHANGED <<currentMergeTreePromise, merges>>
  /\ UNCHANGED <<gitTip, CmpOthers>>

\* The promise of mergeTree settles: its result (null after an error) is
\* written to the compare state of its repository, then cleanup runs.
mergeTreeSettles(m, result) ==
  /\ m \in merges
  /\ merges' = merges \ {m}
  /\ compareState' = [compareState EXCEPT ![m.repo].mergeStatus =
       IF result = "null" THEN NoMergeStatus
       ELSE [kind |-> result]]
  /\ currentMergeTreePromise' = NoPromise
  /\ UNCHANGED <<cmp, gitTip, CmpOthers>>

\* _executeCompare with a History action that loads the commits: the form
\* goes back to History
executeCompareHistory(r) ==
  /\ compareState[r].formState # History
  /\ compareState' = [compareState EXCEPT ![r].formState = History]
  /\ UNCHANGED <<currentMergeTreePromise, cmp, merges, gitTip, CmpOthers>>

\* A checkout moves the tip of the repository
checkout(r, tip) ==
  /\ gitTip[r] # tip
  /\ gitTip' = [gitTip EXCEPT ![r] = tip]
  /\ UNCHANGED <<compareState, currentMergeTreePromise, cmp, merges, CmpOthers>>

NextCompare ==
  \/ \E c \in CompareCalls, r \in Repos, branch \in Branches :
       updateCompareToBranch(c, r, branch)
  \/ \E c \in CompareCalls, found \in BOOLEAN, behind \in 0..1 :
       compareArrives(c, found, behind)
  \/ \E m \in merges, result \in {"Clean", "Conflicts", "null"} :
       mergeTreeSettles(m, result)
  \/ \E r \in Repos : executeCompareHistory(r)
  \/ \E r \in Repos, tip \in Tips : checkout(r, tip)

SpecCompare == InitCompare /\ [][NextCompare]_vars

(***************************************************************************)
(* Properties of the merge preview                                         *)
(***************************************************************************)
\* The comparison that merge m was computed for is the one on screen.
StillCompared(m) ==
  /\ compareState[m.repo].formState.kind = "Compare"
  /\ compareState[m.repo].formState.comparisonBranch = m.branch
  /\ gitTip[m.repo] = m.tip

\* C6: a merge preview that settles after its comparison (repository, tip,
\* comparison branch) stopped being the active one is not written to
\* compareState.
C6_StaleMergePreviewDiscarded ==
  [][\A m \in merges :
       m \notin merges' /\ ~StillCompared(m) => compareState' = compareState]_vars

MergesOf(r) == {m \in merges : m.repo = r}

\* C7: for each repository at most one mergeTree computation is in flight,
\* and while one is pending for a repository no step starts another for it.
C7_OneMergeTreePerRepository ==
  /\ [](\A r \in Repos : Cardinality(MergesOf(r)) <= 1)
  /\ [][\A r \in Repos :
          MergesOf(r) # {} => {m \in merges' : m.repo = r} \subseteq MergesOf(r)]_vars

\* A comparison with another branch was triggered for a repository while its
\* merge preview was pending: the form shows the new branch, the status is
\* Loading, and the only computation in flight is the earlier one.
C7_Witness ==
  \E r \in Repos : \E m \in MergesOf(r) :
    /\ compareState[r].formState.kind = "Compare"
    /\ compareState[r].formState.comparisonBranch # m.branch
    /\ compareState[r].formState.behind > 0
    /\ compareState[r].mergeStatus = Loading
    /\ gitTip[r] # "detached"
    /\ merges = {m}

(***************************************************************************)
(* PROGRESS: the pushPullFetchProgress values of performPush, performPull  *)
(* and performFetch                                                        *)
(***************************************************************************)
NumFractions == 2  \* the command layer reports the fractions k / NumFractions

ProgOthers == <<gateVars, ffVars, diffVars, cmpVars, pollVars, policy, auxVars>>

\* Progress values are counted in units of 1 / (ProgressScale * NumFractions),
\* so that every value the code computes is a whole number of units.
ProgressScale == 700
One == ProgressScale * NumFractions
Fractions == 0..NumFractions

\* const refreshWeight = 0.1
refreshWeight == ProgressScale \div 10

\* scale = (1 / (a + b)) * (1 - refreshWeight); weight *= scale
\* (the weights a, b are given in tenths: 2.5 is 25)
scaled(weight, a, b) == (weight * (ProgressScale - refreshWeight)) \div (a + b)

pushWeight == scaled(25, 25, 10)
pushFetchWeight == scaled(10, 25, 10)
pullWeight == scaled(20, 20, 10)
pullFetchWeight == scaled(10, 20, 10)
fetchWeight == (ProgressScale * 9) \div 10

TipKinds == {"Valid", "Unborn", "Detached"}

IdleComposed ==
  [kind |-> "none", pc |-> "idle", fraction |-> 0, last |-> Null,
   result |-> "none"]

InitProg ==
  /\ composed = [r \in Repos |-> IdleComposed]
  /\ pushPullFetchProgress = [r \in Repos |-> Null]

InitProgress == GateIdle /\ FFIdle /\ DiffIdle /\ CmpIdle /\ InitProg
  /\ PollIdle /\ PolicyIdle /\ AuxIdle

\* updatePushPullFetchProgress(repository, progress); the operation remembers
\* the last value it wrote that was not null.
updatePushPullFetchProgress(r, c, progress) ==
  /\ pushPullFetchProgress' = [pushPullFetchProgress EXCEPT ![r] = progress]
  /\ composed' = [composed EXCEPT ![r] =
                    IF progress = Null THEN c ELSE [c EXCEPT !.last = progress]]

\* withPushPull lets the operation in: no push, pull or fetch of the
\* repository is in flight.
gateFree(r) == composed[r].pc = "idle"

Started(kind, pc) ==
  [kind |-> kind, pc |-> pc, fraction |-> 0, last |-> Null, result |-> "none"]

Ended(c, result) == [c EXCEPT !.pc = "idle", !.result = result]

\* performPush up to its first await.
performPushStarts(r, remote, tip) ==
  /\ gateFree(r)
  /\ IF remote = "null"
     THEN updatePushPullFetchProgress(r, Ended(Started("push", "idle"), "returned"),
                                      pushPullFetchProgress[r])
     ELSE IF tip # "Valid"
     THEN updatePushPullFetchProgress(r, Ended(Started("push", "idle"), "threw"),
                                      pushPullFetchProgress[r])
     ELSE updatePushPullFetchProgress(r, Started("push", "pushRepo"), [value |-> 0])
  /\ UNCHANGED ProgOthers

\* performPull up to its first await: getMergeBase when the branch has an
\* upstream, otherwise straight on to pullRepo.
performPullStarts(r, remote, tip, upstream) ==
  /\ gateFree(r)
  /\ IF remote = "null" \/ tip # "Valid"
     THEN updatePushPullFetchProgress(r, Ended(Started("pull", "idle"), "threw"),
                                      pushPullFetchProgress[r])
     ELSE IF upstream
     THEN updatePushPullFetchProgress(r, Started("pull", "getMergeBase"),
                                      pushPullFetchProgress[r])
     ELSE updatePushPullFetchProgress(r, Started("pull", "pullRepo"), [value |-> 0])
  /\ UNCHANGED ProgOthers

\* getMergeBase returns: the first progress of the pull.
mergeBaseArrives(r) ==
  /\ composed[r].pc = "getMergeBase"
  /\ updatePushPullFetchProgress(r, [composed[r] EXCEPT !.pc = "pullRepo"],
                                 [value |-> 0])
  /\ UNCHANGED ProgOthers

\* getMergeBase throws, outside the try block of performPull.
mergeBaseThrows(r) ==
  /\ composed[r].pc = "getMergeBase"
  /\ updatePushPullFetchProgress(r, Ended(composed[r], "threw"),
                                 pushPullFetchProgress[r])
  /\ UNCHANGED ProgOthers

\* performFetch up to its first await: no progress is written yet.
performFetchStarts(r) ==
  /\ gateFree(r)
  /\ updatePushPullFetchProgress(r, Started("fetch", "fetch"),
                                 pushPullFetchProgress[r])
  /\ UNCHANGED ProgOthers

\* The callbacks with the fetch of performPush not offset by pushWeight.
callbackValueNoOffset(c, k) ==
  CASE c.kind = "push" /\ c.pc = "pushRepo" -> pushWeight * k
    [] c.kind = "push" /\ c.pc = "fetchRemotes" -> k * pushFetchWeight
    [] c.kind = "pull" /\ c.pc = "pullRepo" -> k * pullWeight
    [] c.kind = "fetch" /\ c.pc = "fetch" -> k * fetchWeight

\* The value a progress callback writes for the fraction k / NumFractions.
callbackValue(c, k) ==
  CASE c.kind = "push" /\ c.pc = "pushRepo" -> pushWeight * k
    [] c.kind = "push" /\ c.pc = "fetchRemotes" ->
         pushWeight * NumFractions + k * pushFetchWeight
    [] c.kind = "pull" /\ c.pc = "pullRepo" -> k * pullWeight
    [] c.kind = "fetch" /\ c.pc = "fetch" -> k * fetchWeight

\* The command layer reports a fraction of the running phase, not smaller
\* than the one it reported before.
progressCallback(r, k) ==
  /\ composed[r].pc \in {"pushRepo", "fetchRemotes", "pullRepo", "fetch"}
  /\ k >= composed[r].fraction
  /\ updatePushPullFetchProgress(r, [composed[r] EXCEPT !.fraction = k],
                                 [value |-> callbackValue(composed[r], k)])
  /\ UNCHANGED ProgOthers

\* refreshStartProgress + refreshWeight * tenths / 10
refreshProgress(refreshStartProgress, tenths) ==
  [value |-> refreshStartProgress * NumFractions
             + ((refreshWeight * tenths) \div 10) * NumFractions]

Succeeded(c) ==
  Ended(c, IF c.result = "failed" THEN "failed" ELSE "succeeded")

\* performPush after an await that returned.
pushContinues(r) ==
  /\ composed[r].kind = "push"
  /\ LET c == composed[r]
         refreshStartProgress == pushWeight + pushFetchWeight
     IN CASE c.pc = "pushRepo" ->
               updatePushPullFetchProgress(
                 r, [c EXCEPT !.pc = "fetchRemotes", !.fraction = 0],
                 pushPullFetchProgress[r])
          [] c.pc = "fetchRemotes" ->
               updatePushPullFetchProgress(
                 r, [c EXCEPT !.pc = "refresh"],
                 refreshProgress(refreshStartProgress, 0))
          [] c.pc = "refresh" ->
               updatePushPullFetchProgress(
                 r, [c EXCEPT !.pc = "fastForward"],
                 refreshProgress(refreshStartProgress, 5))
          [] c.pc = "fastForward" ->
               updatePushPullFetchProgress(r, Succeeded(c), Null)
          [] OTHER -> FALSE
  /\ UNCHANGED ProgOthers

\* A step of performPush fails inside gitStore.performFailableOperation, which
\* reports the error and returns; performPush goes on after it.
pushFails(r) ==
  /\ composed[r].kind = "push"
  /\ composed[r].pc \in {"pushRepo", "fetchRemotes", "refresh", "fastForward"}
  /\ updatePushPullFetchProgress(r, Ended(composed[r], "failed"), Null)
  /\ UNCHANGED ProgOthers

\* performPull after an await that returned; a pullRepo that failed inside
\* gitStore.performFailableOperation returns as well.
pullContinues(r, pullFailed) ==
  /\ composed[r].kind = "pull"
  /\ LET c == composed[r]
         refreshStartProgress == pullWeight + pullFetchWeight
     IN CASE c.pc = "pullRepo" ->
               updatePushPullFetchProgress(
                 r, [c EXCEPT !.pc = "refresh",
                              !.result = IF pullFailed THEN "failed" ELSE @],
                 refreshProgress(refreshStartProgress, 0))
          [] c.pc = "refresh" /\ ~pullFailed ->
               updatePushPullFetchProgress(
                 r, [c EXCEPT !.pc = "updateKactusFiles"],
                 refreshProgress(refreshStartProgress, 2))
          [] c.pc = "updateKactusFiles" /\ ~pullFailed ->
               updatePushPullFetchProgress(
                 r, [c EXCEPT !.pc = "fastForward"],
                 refreshProgress(refreshStartProgress, 5))
          [] c.pc = "fastForward" /\ ~pullFailed ->
               updatePushPullFetchProgress(r, Succeeded(c), Null)
          [] OTHER -> FALSE
  /\ UNCHANGED ProgOthers

\* An exception that leaves the try block without the finally.
throwsNoFinally(r, kind, pcs) ==
  /\ composed[r].kind = kind
  /\ composed[r].pc \in pcs
  /\ updatePushPullFetchProgress(r, Ended(composed[r], "threw"),
                                 pushPullFetchProgress[r])
  /\ UNCHANGED ProgOthers

\* An await inside a try block throws: the finally block clears the progress.
throws(r, kind, pcs) ==
  /\ composed[r].kind = kind
  /\ composed[r].pc \in pcs
  /\ updatePushPullFetchProgress(r, Ended(composed[r], "threw"), Null)
  /\ UNCHANGED ProgOthers

\* reconcileHistory, _refreshRepository, _updateKactusFilesAfterCheckout or
\* fastForwardBranches throws in performPull.
pullThrows(r) ==
  throws(r, "pull", {"refresh", "updateKactusFiles", "fastForward"})

\* performFetch after an await that returned.
fetchContinues(r) ==
  /\ composed[r].kind = "fetch"
  /\ LET c == composed[r]
     IN CASE c.pc = "fetch" ->
               updatePushPullFetchProgress(
                 r, [c EXCEPT !.pc = "refresh"], refreshProgress(fetchWeight, 0))
          [] c.pc = "refresh" ->
               updatePushPullFetchProgress(
                 r, [c EXCEPT !.pc = "fastForward"],
                 refreshProgress(fetchWeight, 5))
          [] c.pc = "fastForward" ->
               updatePushPullFetchProgress(r, Succeeded(c), Null)
          [] OTHER -> FALSE
  /\ UNCHANGED ProgOthers

\* gitStore.fetch, _refreshRepository or fastForwardBranches throws in
\* performFetch.
fetchThrows(r) == throws(r, "fetch", {"fetch", "refresh", "fastForward"})

NextProgress ==
  \/ \E r \in Repos, remote \in {"null", "origin"}, tip \in TipKinds :
       performPushStarts(r, remote, tip)
  \/ \E r \in Repos, remote \in {"null", "origin"}, tip \in TipKinds,
        upstream \in BOOLEAN :
       performPullStarts(r, remote, tip, upstream)
  \/ \E r \in Repos : mergeBaseArrives(r)
  \/ \E r \in Repos : mergeBaseThrows(r)
  \/ \E r \in Repos : performFetchStarts(r)
  \/ \E r \in Repos, k \in Fractions : progressCallback(r, k)
  \/ \E r \in Repos : pushContinues(r)
  \/ \E r \in Repos : pushFails(r)
  \/ \E r \in Repos, pullFailed \in BOOLEAN : pullContinues(r, pullFailed)
  \/ \E r \in Repos : pullThrows(r)
  \/ \E r \in Repos : fetchContinues(r)
  \/ \E r \in Repos : fetchThrows(r)

SpecProgress == InitProgress /\ [][NextProgress]_vars

(***************************************************************************)
(* Properties of the progress values                                       *)
(***************************************************************************)
\* C13: while a push, pull or fetch of a repository is running, a progress
\* value it writes is never smaller than the last value it wrote, given that
\* the fractions of each phase do not decrease.
C13_ProgressNeverDecreases ==
  [][\A r \in Repos :
       /\ composed[r].pc # "idle"
       /\ composed[r].last # Null
       /\ pushPullFetchProgress'[r] # Null
       => pushPullFetchProgress'[r].value >= composed[r].last.value]_vars

\* A push is in its second phase, fetching the remote, and the fetch has
\* reported a fraction strictly between 0 and 1: the value lies strictly
\* between the weight of the push and the start of the refresh.
C13_Witness ==
  \E r \in Repos :
    /\ composed[r].kind = "push"
    /\ composed[r].pc = "fetchRemotes"
    /\ composed[r].fraction \in 1..(NumFractions - 1)
    /\ pushPullFetchProgress[r] # Null
    /\ pushPullFetchProgress[r].value > pushWeight * NumFractions
    /\ pushPullFetchProgress[r].value
         < (pushWeight + pushFetchWeight) * NumFractions

\* C14 as claimed: the last progress value written by a push, pull or fetch
\* that completed with every step succeeding is exactly 1.0.
C14_SuccessEndsAtOne ==
  \A r \in Repos :
    composed[r].result = "succeeded" => composed[r].last = [value |-> One]

\* C15: when no push, pull or fetch of a repository is running, whether the
\* last one succeeded, failed or threw, its pushPullFetchProgress is null.
C15_ProgressNullAfterEnd ==
  \A r \in Repos :
    composed[r].pc = "idle" => pushPullFetchProgress[r] = Null

\* One repository ended a pull with an exception after it had written
\* progress, the other ended a push in which a step failed after progress
\* had been written: both have no progress left.
C15_Witness ==
  \E r1, r2 \in Repos :
    /\ composed[r1].kind = "pull" /\ composed[r1].pc = "idle"
    /\ composed[r1].result = "threw" /\ composed[r1].last # Null
    /\ composed[r2].kind = "push" /\ composed[r2].pc = "idle"
    /\ composed[r2].result = "failed" /\ composed[r2].last # Null
    /\ pushPullFetchProgress[r1] = Null
    /\ pushPullFetchProgress[r2] = Null

(***************************************************************************)
(* REPOSITORY SELECTION AND THE BACKGROUND POLLERS: _selectRepository,     *)
(* start/stopBackgroundFetching, start/stopPullRequestUpdater,             *)
(* startAheadBehindUpdater, stopAheadBehindUpdate                          *)
(***************************************************************************)
MaxNesting == 2    \* _selectRepository calls that are on the stack at once

PollOthers ==
  <<task, outcome, emittedErrors, ffVars, diffVars, cmpVars, progVars, policy,
    auxVars>>

\* What _selectRepository is called with: null, a CloningRepository, or a
\* Repository that may be missing on disk and may lack a GitHub repository
\* (or an account for it).
Cloning == [kind |-> "CloningRepository"]
RepositoryObject(id, missing, gitHubRepository) ==
  [kind |-> "Repository", id |-> id, missing |-> missing,
   gitHubRepository |-> gitHubRepository]
RepositoryObjects ==
  {RepositoryObject("r1", FALSE, TRUE), RepositoryObject("r2", FALSE, TRUE),
   RepositoryObject("r2", TRUE, TRUE), RepositoryObject("r1", FALSE, FALSE)}
Selectable == {Null, Cloning} \cup RepositoryObjects

InitPollers ==
  GateIdle /\ FFIdle /\ DiffIdle /\ CmpIdle /\ ProgIdle
  /\ PollIdle /\ PolicyIdle /\ AuxIdle

\* BackgroundFetcher.performAndScheduleFetch: unless the policy says no, the
\* fetcher calls performFetch, which goes through withPushPull.  The result
\* is the fetcher and the repository state after the synchronous part.
performAndScheduleFetch(fetcher, shouldFetch, state) ==
  IF shouldFetch /\ ~state[fetcher.repository].isPushPullFetchInProgress
  THEN [fetcher |-> [fetcher EXCEPT !.run = "fetching"],
        state |-> [state EXCEPT
                     ![fetcher.repository].isPushPullFetchInProgress = TRUE]]
  ELSE [fetcher |-> [fetcher EXCEPT !.run = "scheduled"], state |-> state]

\* stopBackgroundFetching: the fetches in flight once the fetcher is stopped
stopBackgroundFetching(fetcher, runs) ==
  IF fetcher # Null /\ fetcher.run = "fetching"
  THEN runs \cup {fetcher.repository}
  ELSE runs

\* _selectRepository up to emitUpdate, where a listener may call it again.
\* Of previouslySelectedRepository the call keeps what it uses at the end:
\* withInitialSkew = !previouslySelectedRepository.
selectRepositoryBegins(repository) ==
  /\ Len(selecting) < MaxNesting
  /\ selecting' = <<[repository |-> repository,
                     withInitialSkew |-> selectedRepository = Null]>>
                  \o selecting
  /\ selectedRepository' = repository
  /\ UNCHANGED <<currentBackgroundFetcher, currentPullRequestUpdater,
                 currentAheadBehindUpdater, stoppedRuns, fatalErrors,
                 repositoryState, PollOthers>>

\* The three start functions, entered with the pollers that are current.
\* Each reports a fatal error and returns if its poller is still set.
StartPollers(repository, withInitialSkew, shouldFetch, current, runs) ==
  LET fetcher == current.fetcher
      prUpdater == current.prUpdater
      abUpdater == current.abUpdater
      started ==
        performAndScheduleFetch(
          [repository |-> repository.id, run |-> "scheduled"],
          ~withInitialSkew /\ shouldFetch, repositoryState)
      startsFetcher == fetcher = Null /\ repository.gitHubRepository
  IN /\ currentBackgroundFetcher' =
          IF startsFetcher THEN started.fetcher ELSE fetcher
     /\ repositoryState' =
          IF startsFetcher THEN started.state ELSE repositoryState
     /\ currentPullRequestUpdater' =
          IF prUpdater = Null /\ repository.gitHubRepository
          THEN [repository |-> repository.id] ELSE prUpdater
     /\ currentAheadBehindUpdater' =
          IF abUpdater = Null THEN [repository |-> repository.id]
                              ELSE abUpdater
     /\ fatalErrors' =
          fatalErrors
            \cup (IF fetcher # Null THEN {"startBackgroundFetching"} ELSE {})
            \cup (IF prUpdater # Null THEN {"startPullRequestUpdater"} ELSE {})
            \cup (IF abUpdater # Null THEN {"startAheadBehindUpdater"} ELSE {})
     /\ stoppedRuns' = runs

\* The second round of stops without stopAheadBehindUpdate.
stopAllKeepsAheadBehind(abUpdater) == abUpdater

\* stopAheadBehindUpdate in the second round of stops (line 1229)
stopAll(abUpdater) == Null

\* The first round of stops (lines 1165-1166) leaves the ahead/behind updater.
stopFirst(abUpdater) == abUpdater

\* _selectRepository from the first stops to its return.
selectRepositoryContinues(shouldFetch) ==
  /\ selecting # << >>
  /\ LET call == Head(selecting)
         repository == call.repository
         runs == stopBackgroundFetching(currentBackgroundFetcher, stoppedRuns)
     IN /\ selecting' = Tail(selecting)
        /\ IF \/ repository = Null
              \/ repository.kind # "Repository"
              \/ repository.missing
              \/ selectedRepository # repository
           THEN /\ currentBackgroundFetcher' = Null
                /\ currentPullRequestUpdater' = Null
                /\ currentAheadBehindUpdater' =
                     stopFirst(currentAheadBehindUpdater)
                /\ stoppedRuns' = runs
                /\ UNCHANGED <<fatalErrors, repositoryState>>
           ELSE StartPollers(
                  repository, call.withInitialSkew, shouldFetch,
                  [fetcher |-> Null, prUpdater |-> Null,
                   abUpdater |-> stopAll(stopFirst(currentAheadBehindUpdater))],
                  runs)
  /\ UNCHANGED <<selectedRepository, PollOthers>>

\* The timer of the current background fetcher fires.
timerFires(shouldFetch) ==
  /\ currentBackgroundFetcher # Null
  /\ currentBackgroundFetcher.run = "scheduled"
  /\ LET next == performAndScheduleFetch(currentBackgroundFetcher, shouldFetch,
                                         repositoryState)
     IN /\ currentBackgroundFetcher' = next.fetcher
        /\ repositoryState' = next.state
  /\ UNCHANGED <<selectedRepository, currentPullRequestUpdater,
                 currentAheadBehindUpdater, selecting, stoppedRuns,
                 fatalErrors, PollOthers>>

\* A run whose result is dropped when its fetcher was stopped meanwhile:
\* nothing of the repository state is touched.
fetchRunEndsDropped(r) ==
  /\ \/ r \in stoppedRuns
     \/ /\ currentBackgroundFetcher # Null
        /\ currentBackgroundFetcher = [repository |-> r, run |-> "fetching"]
  /\ IF r \in stoppedRuns
     THEN /\ stoppedRuns' = stoppedRuns \ {r}
          /\ UNCHANGED <<currentBackgroundFetcher, repositoryState>>
     ELSE /\ currentBackgroundFetcher' =
               [currentBackgroundFetcher EXCEPT !.run = "scheduled"]
          /\ repositoryState' =
               [repositoryState EXCEPT ![r].isPushPullFetchInProgress = FALSE]
          /\ UNCHANGED stoppedRuns
  /\ UNCHANGED <<selectedRepository, currentPullRequestUpdater,
                 currentAheadBehindUpdater, selecting, fatalErrors, PollOthers>>

\* The performFetch of a fetcher's run leaves withPushPull: the finally block
\* clears the flag.  A fetcher that was not stopped schedules its next run.
fetchRunEnds(r) ==
  /\ \/ r \in stoppedRuns
     \/ /\ currentBackgroundFetcher # Null
        /\ currentBackgroundFetcher = [repository |-> r, run |-> "fetching"]
  /\ repositoryState' =
       [repositoryState EXCEPT ![r].isPushPullFetchInProgress = FALSE]
  /\ IF r \in stoppedRuns
     THEN /\ stoppedRuns' = stoppedRuns \ {r}
          /\ UNCHANGED currentBackgroundFetcher
     ELSE /\ currentBackgroundFetcher' =
               [currentBackgroundFetcher EXCEPT !.run = "scheduled"]
          /\ UNCHANGED stoppedRuns
  /\ UNCHANGED <<selectedRepository, currentPullRequestUpdater,
                 currentAheadBehindUpdater, selecting, fatalErrors, PollOthers>>

NextPollers ==
  \/ \E repository \in Selectable : selectRepositoryBegins(repository)
  \/ \E shouldFetch \in BOOLEAN : selectRepositoryContinues(shouldFetch)
  \/ \E shouldFetch \in BOOLEAN : timerFires(shouldFetch)
  \/ \E r \in Repos : fetchRunEnds(r)

SpecPollers == InitPollers /\ [][NextPollers]_vars

(***************************************************************************)
(* Properties of the pollers                                               *)
(***************************************************************************)
Pollers ==
  {currentBackgroundFetcher, currentPullRequestUpdater,
   currentAheadBehindUpdater} \ {Null}

Deselected ==
  \/ selectedRepository = Null
  \/ selectedRepository.kind # "Repository"
  \/ selectedRepository.missing

\* C16 as claimed: once _selectRepository has returned, every poller that is
\* set belongs to the selected repository.  (There is one field for each kind
\* of poller, so at most one of a kind is set.)
C16_PollersBelongToSelected ==
  selecting = << >> =>
    \A p \in Pollers :
      /\ selectedRepository # Null
      /\ selectedRepository.kind = "Repository"
      /\ p.repository = selectedRepository.id

\* C17 as claimed: once _selectRepository has returned with null, a cloning
\* placeholder or a missing repository selected, no poller is set.
C17_NoPollerAfterDeselect ==
  selecting = << >> /\ Deselected => Pollers = {}

BackgroundFetchMinimumInterval == 30 * 60 * 1000
TimeStep == 15 * 60 * 1000   \* dates are multiples of a quarter of an hour
MaxTime == 4                 \* the latest date, in steps

PolicyOthers ==
  <<gateVars, ffVars, diffVars, cmpVars, progVars, pollVars, auxVars>>

Dates == {[time |-> k * TimeStep] : k \in 0..MaxTime}

\* gitStore.lastFetched, the lastPush argument and new Date(): dates that
\* are not in the future, the first two possibly null.
InitPolicy ==
  \E lastFetched \in Dates \cup {Null}, lastPush \in Dates \cup {Null},
     now \in Dates :
    /\ lastFetched # Null => lastFetched.time <= now.time
    /\ lastPush # Null => lastPush.time <= now.time
    /\ policy = [lastFetched |-> lastFetched, lastPush |-> lastPush,
                 now |-> now, result |-> "pending"]

InitFetchPolicy ==
  GateIdle /\ FFIdle /\ DiffIdle /\ CmpIdle /\ ProgIdle
  /\ PollIdle /\ InitPolicy /\ AuxIdle

\* The policy without the minimum interval.
shouldBackgroundFetchNoInterval(lastFetched, lastPush, now) ==
  IF lastFetched = Null THEN TRUE
  ELSE IF lastPush = Null THEN TRUE
  ELSE IF lastFetched.time < lastPush.time THEN TRUE
  ELSE FALSE

shouldBackgroundFetch(lastFetched, lastPush, now) ==
  IF lastFetched = Null THEN TRUE
  ELSE IF now.time - lastFetched.time < BackgroundFetchMinimumInterval
  THEN FALSE
  ELSE IF lastPush = Null THEN TRUE
  ELSE IF lastFetched.time < lastPush.time THEN TRUE
  ELSE FALSE

\* The background fetcher asks the policy.
policyConsulted ==
  /\ policy.result = "pending"
  /\ policy' =
       [policy EXCEPT !.result =
          IF shouldBackgroundFetch(policy.lastFetched, policy.lastPush,
                                   policy.now)
          THEN "run" ELSE "skip"]
  /\ UNCHANGED PolicyOthers

NextFetchPolicy == policyConsulted

SpecFetchPolicy == InitFetchPolicy /\ [][NextFetchPolicy]_vars

(***************************************************************************)
(* Properties of the fetch policy                                          *)
(***************************************************************************)
FetchedWithinInterval ==
  /\ policy.lastFetched # Null
  /\ policy.now.time - policy.lastFetched.time < BackgroundFetchMinimumInterval

PushedAfterLastFetch ==
  /\ policy.lastFetched # Null
  /\ policy.lastPush # Null
  /\ policy.lastFetched.time < policy.lastPush.time

Decided == policy # Null /\ policy.result # "pending"

\* C19 as claimed: the policy skips exactly when the repository was fetched
\* within the minimum interval and no push landed after the last fetch.
C19_SkipsOnlyWhenRecentAndNoPush ==
  Decided =>
    (policy.result = "skip" <=> FetchedWithinInterval /\ ~PushedAfterLastFetch)

\* C19 amended: the policy skips exactly when the repository was fetched
\* within the minimum interval (whatever was pushed), or was fetched longer
\* ago and a last push is known that is not later than the last fetch.
C19_SkipsWhenRecentOrNothingPushed ==
  Decided =>
    (policy.result = "skip" <=>
       \/ FetchedWithinInterval
       \/ /\ policy.lastFetched # Null
          /\ policy.lastPush # Null
          /\ ~PushedAfterLastFetch)

\* The policy skipped a repository whose last fetch is older than the
\* minimum interval, because the last push is older still.
C19_Witness ==
  /\ Decided
  /\ policy.result = "skip"
  /\ policy.lastFetched # Null
  /\ ~FetchedWithinInterval
  /\ policy.lastPush # Null
  /\ policy.lastPush.time < policy.lastFetched.time

(***************************************************************************)
(* THE COMPARE REFRESH: _initializeCompare and the diverging-branch banner *)
(* of one repository                                                       *)
(***************************************************************************)
NumInitCalls == 2   \* _initializeCompare calls in flight at a time
MaxBehind == 2      \* the largest behind count the ahead/behind cache holds

BannerOthers == <<baseVars, emitVars, retryVars, repoVars, rebuildVars>>

InitCalls == 1..NumInitCalls
ValidTip(branch) == [kind |-> "Valid", branch |-> [name |-> branch]]
TipStates ==
  {ValidTip("master"), ValidTip("b1"), [kind |-> "Detached"],
   [kind |-> "Unborn"]}
\* branchesState.defaultBranch
CachedDefaultBranches == {Null, [name |-> "master"]}
\* branchesState.allBranches
AllBranches == {[name |-> "master"], [name |-> "b1"], [name |-> "b2"]}
\* IAheadBehind | null
AheadBehinds == {Null} \cup {[behind |-> n] : n \in 0..MaxBehind}

InitBanner ==
  /\ branchCompare =
       [defaultBranch |-> Null,
        inferredComparisonBranch |-> [branch |-> Null, aheadBehind |-> Null],
        isDivergingBranchBannerVisible |-> FALSE]
  /\ initializing = [c \in InitCalls |-> Null]

InitInitializeCompare ==
  BaseIdle /\ InitBanner /\ EmitIdle /\ RetryIdle /\ RepoIdle /\ RebuildIdle

getBehindOrDefault(aheadBehind) ==
  IF aheadBehind = Null THEN 0 ELSE aheadBehind.behind

\* const currentBranch = tip.kind === TipState.Valid ? tip.branch : null
currentBranch(tip) == IF tip.kind = "Valid" THEN tip.branch ELSE Null

\* const defaultBranch of _initializeCompare
defaultBranch(tip, cachedDefaultBranch) ==
  IF /\ currentBranch(tip) # Null
     /\ cachedDefaultBranch # Null
     /\ currentBranch(tip).name # cachedDefaultBranch.name
  THEN cachedDefaultBranch
  ELSE Null

\* A banner shown for a count that grew only.
countChangedWhenGreater(currentCount, previousCount) ==
  currentCount > 0 /\ currentCount > previousCount

countChanged(currentCount, previousCount) ==
  currentCount > 0 /\ previousCount # currentCount

\* _setDivergingBranchBannerVisibility applied to the compare state
withBannerVisibility(state, visible) ==
  IF state.isDivergingBranchBannerVisible # visible
  THEN [state EXCEPT !.isDivergingBranchBannerVisible = visible]
  ELSE state

\* _initializeCompare from the update of the compare state to its end; the
\* _executeCompare it starts last is not awaited.
initialized(default, inferredBranch, aheadBehind, previous) ==
  LET updated == [branchCompare EXCEPT
                    !.defaultBranch = default,
                    !.inferredComparisonBranch =
                       [branch |-> inferredBranch, aheadBehind |-> aheadBehind]]
  IN IF inferredBranch # Null
     THEN withBannerVisibility(updated,
            countChanged(getBehindOrDefault(aheadBehind),
                         getBehindOrDefault(previous)))
     ELSE withBannerVisibility(updated, FALSE)

\* _initializeCompare up to the await of inferComparisonBranch, or to its end
\* when the tip is not valid or there is no ahead/behind cache. Of the state
\* read at its entry the call keeps the ahead/behind of the inferred branch,
\* the only part it reads after the await.
initializeCompare(c, tip, cachedDefaultBranch, aheadBehindCache) ==
  /\ initializing[c] = Null
  /\ IF tip.kind = "Valid" /\ aheadBehindCache
     THEN /\ initializing' = [initializing EXCEPT ![c] =
               [tip |-> tip,
                defaultBranch |-> defaultBranch(tip, cachedDefaultBranch),
                previous |-> branchCompare.inferredComparisonBranch.aheadBehind]]
          /\ UNCHANGED branchCompare
     ELSE /\ branchCompare' =
               initialized(defaultBranch(tip, cachedDefaultBranch), Null, Null,
                           branchCompare.inferredComparisonBranch.aheadBehind)
          /\ UNCHANGED initializing
  /\ UNCHANGED BannerOthers

\* inferComparisonBranch has settled: a branch other than the current one, or
\* null, and what the ahead/behind cache holds for it
inferArrives(c, inferredBranch, aheadBehind) ==
  /\ initializing[c] # Null
  /\ inferredBranch # initializing[c].tip.branch
  /\ inferredBranch = Null => aheadBehind = Null
  /\ branchCompare' = initialized(initializing[c].defaultBranch, inferredBranch,
                                  aheadBehind, initializing[c].previous)
  /\ initializing' = [initializing EXCEPT ![c] = Null]
  /\ UNCHANGED BannerOthers

\* The dispatcher sets the visibility of the banner (the user dismisses it).
setDivergingBranchBannerVisibility(visible) ==
  /\ branchCompare.isDivergingBranchBannerVisible # visible
  /\ branchCompare' = withBannerVisibility(branchCompare, visible)
  /\ UNCHANGED <<initializing, BannerOthers>>

NextInitializeCompare ==
  \/ \E c \in InitCalls, tip \in TipStates,
        cachedDefaultBranch \in CachedDefaultBranches,
        aheadBehindCache \in BOOLEAN :
       initializeCompare(c, tip, cachedDefaultBranch, aheadBehindCache)
  \/ \E c \in InitCalls, inferredBranch \in AllBranches \cup {Null},
        aheadBehind \in AheadBehinds :
       inferArrives(c, inferredBranch, aheadBehind)
  \/ setDivergingBranchBannerVisibility(FALSE)

SpecInitializeCompare == InitInitializeCompare /\ [][NextInitializeCompare]_vars

(***************************************************************************)
(* Properties of the compare refresh                                       *)
(***************************************************************************)
\* The behind count of an inferred comparison branch
StoredCount(inferred) == getBehindOrDefault(inferred.aheadBehind)

\* A step in which the _initializeCompare call c reaches its end after the
\* await, having found a comparison branch
Refreshed(c) ==
  /\ initializing[c] # Null
  /\ initializing'[c] = Null
  /\ branchCompare'.inferredComparisonBranch.branch # Null

\* C21: a compare refresh makes the banner visible only if the behind count
\* of the inferred branch is positive and greater than the count the
\* compare state held from the previous refresh.
C21_ShownOnlyWhenCountGrew ==
  [][\A c \in InitCalls :
       Refreshed(c) /\ branchCompare'.isDivergingBranchBannerVisible
         => /\ StoredCount(branchCompare'.inferredComparisonBranch) > 0
            /\ StoredCount(branchCompare'.inferredComparisonBranch)
                 > StoredCount(branchCompare.inferredComparisonBranch)]_vars

\* C21, as the code has it: a compare refresh that finds a comparison branch
\* leaves the banner visible exactly when the behind count is positive and
\* differs from the count the compare state held when the refresh started;
\* a refresh that finds none hides it.
C21_ShownWhenCountDiffers ==
  [][\A c \in InitCalls :
       initializing[c] # Null /\ initializing'[c] = Null
         => branchCompare'.isDivergingBranchBannerVisible =
              (/\ branchCompare'.inferredComparisonBranch.branch # Null
               /\ StoredCount(branchCompare'.inferredComparisonBranch) > 0
               /\ StoredCount(branchCompare'.inferredComparisonBranch)
                    # getBehindOrDefault(initializing[c].previous))]_vars

\* The banner is visible for a behind count of 1 while a refresh that started
\* when the stored count was 2 is in flight: the count decreased.
C21_Witness ==
  /\ branchCompare.isDivergingBranchBannerVisible
  /\ StoredCount(branchCompare.inferredComparisonBranch) = 1
  /\ \E c \in InitCalls :
       /\ initializing[c] # Null
       /\ getBehindOrDefault(initializing[c].previous) = 2

\* C22: a compare refresh that finds the inferred branch and the behind count
\* that the previous refresh stored never turns the banner on, also when
\* _initializeCompare calls overlap.
C22_SameCountNeverTurnsBannerOn ==
  [][\A c \in InitCalls :
       /\ Refreshed(c)
       /\ branchCompare'.inferredComparisonBranch
            = branchCompare.inferredComparisonBranch
       => ~(/\ ~branchCompare.isDivergingBranchBannerVisible
            /\ branchCompare'.isDivergingBranchBannerVisible)]_vars

\* What the claim gives for compareState.defaultBranch
SurfacedDefaultBranch(tip, cachedDefaultBranch) ==
  IF cachedDefaultBranch = Null THEN Null
  ELSE IF tip.kind = "Valid" /\ tip.branch.name = cachedDefaultBranch.name
  THEN Null
  ELSE cachedDefaultBranch

\* C23: every refresh sets compareState.defaultBranch to the default branch
\* of the repository when there is one and the tip is not on it (another
\* branch, a detached or an unborn tip), and to null when the tip is on it.
C23_DefaultBranchSurfacedOffDefault ==
  [][\A c \in InitCalls, tip \in TipStates,
        cachedDefaultBranch \in CachedDefaultBranches,
        aheadBehindCache \in BOOLEAN :
       initializeCompare(c, tip, cachedDefaultBranch, aheadBehindCache)
         => IF initializing'[c] # Null
            THEN initializing'[c].defaultBranch
                   = SurfacedDefaultBranch(tip, cachedDefaultBranch)
            ELSE branchCompare'.defaultBranch
                   = SurfacedDefaultBranch(tip, cachedDefaultBranch)]_vars

(***************************************************************************)
(* Properties of updateCompareToBranch                                     *)
(***************************************************************************)
\* Every updateCompareToBranch call of r has completed: none awaits its
\* commits, and no mergeTree promise that a call returned is pending.
CompareSettled(r) ==
  /\ \A c \in CompareCalls : cmp[c].repo # r
  /\ merges = {}

\* C24: once the updateCompareToBranch calls of a repository have completed,
\* a comparison whose behind count is 0 has a null mergeStatus: no merge
\* preview is computed or shown for it.
C24_NoMergeStatusWhenNotBehind ==
  \A r \in Repos :
    /\ CompareSettled(r)
    /\ compareState[r].formState.kind = "Compare"
    /\ compareState[r].formState.behind = 0
    => compareState[r].mergeStatus = NoMergeStatus

(***************************************************************************)
(* Compare actions in the order they were issued: a call takes the slot    *)
(* above every call in flight, so of two calls in flight the one in the    *)
(* lower slot was issued first.                                            *)
(***************************************************************************)
InIssueOrder(c) ==
  /\ \A d \in CompareCalls : d >= c => cmp[d] = IdleCall
  /\ c > 1 => cmp[c - 1] # IdleCall

NextCompareInOrder ==
  \/ \E c \in CompareCalls, r \in Repos, branch \in Branches :
       InIssueOrder(c) /\ updateCompareToBranch(c, r, branch)
  \/ \E c \in CompareCalls, found \in BOOLEAN, behind \in 0..1 :
       compareArrives(c, found, behind)
  \/ \E m \in merges, result \in {"Clean", "Conflicts", "null"} :
       mergeTreeSettles(m, result)
  \/ \E r \in Repos : executeCompareHistory(r)
  \/ \E r \in Repos, tip \in Tips : checkout(r, tip)

SpecCompareInOrder == InitCompare /\ [][NextCompareInOrder]_vars

\* Call c was issued for the repository of call d before d, and both are in
\* flight.
IssuedBefore(c, d) ==
  /\ c < d
  /\ cmp[c] # IdleCall
  /\ cmp[d] # IdleCall
  /\ cmp[c].repo = cmp[d].repo

\* C25: a compare computation that ends while a compare action issued after
\* it for the same repository is in flight does not commit its result: the
\* compare state stays as it was.
C25_EarlierCompareDoesNotCommit ==
  [][\A c, d \in CompareCalls :
       IssuedBefore(c, d) /\ cmp'[c] = IdleCall
         => compareState' = compareState]_vars

(***************************************************************************)
(* STATE-CHANGE NOTIFICATIONS: emitUpdate, emitUpdateNow                   *)
(***************************************************************************)
MaxEmitCalls == 3   \* emitUpdate calls in one synchronous segment
MaxFrames == 2      \* animation-frame callbacks pending at a time
MaxSnapshots == 3   \* snapshots that are counted

EmitOthers == <<baseVars, bannerVars, retryVars, repoVars, rebuildVars>>

WindowStates == {"normal", "maximized", "hidden"}
\* A segment that has called emitUpdate calls times, emitted snapshots
\* from these calls, and queued animation-frame callbacks from them.
FreshTick == [calls |-> 0, emitted |-> 0, queued |-> 0]

InitEmit ==
  /\ windowState \in WindowStates
  /\ emitQueued = FALSE
  /\ animationFrames = 0
  /\ tick = FreshTick
  /\ snapshots = 0

InitEmitUpdate ==
  BaseIdle /\ BannerIdle /\ InitEmit /\ RetryIdle /\ RepoIdle /\ RebuildIdle

\* emitUpdate that never looks at emitQueued.
emitUpdateAlwaysQueues(state) ==
  /\ tick' = [tick EXCEPT !.calls = @ + 1,
                          !.emitted = IF state = "hidden" THEN @ + 1 ELSE @,
                          !.queued = IF state = "hidden" THEN @ ELSE @ + 1]
  /\ emitQueued' = (state # "hidden")
  /\ animationFrames' = IF state = "hidden" THEN animationFrames
                        ELSE animationFrames + 1
  /\ snapshots' = IF state = "hidden" THEN snapshots + 1 ELSE snapshots

\* One call of emitUpdate in a window in the given state
emitUpdateIn(state) ==
  IF state = "hidden"
  THEN \* emitUpdateNow
       /\ emitQueued' = FALSE
       /\ snapshots' = snapshots + 1
       /\ tick' = [tick EXCEPT !.calls = @ + 1, !.emitted = @ + 1]
       /\ UNCHANGED animationFrames
  ELSE IF emitQueued
  THEN /\ tick' = [tick EXCEPT !.calls = @ + 1]
       /\ UNCHANGED <<emitQueued, animationFrames, snapshots>>
  ELSE /\ emitQueued' = TRUE
       /\ animationFrames' = animationFrames + 1
       /\ tick' = [tick EXCEPT !.calls = @ + 1, !.queued = @ + 1]
       /\ UNCHANGED snapshots

\* The call takes neither the pending callbacks nor the count of snapshots
\* beyond its bound.
CanQueue(state) ==
  IF state = "hidden" THEN snapshots < MaxSnapshots
  ELSE ~emitQueued => animationFrames < MaxFrames

\* A handler calls emitUpdate once more before it returns or awaits
emitUpdate ==
  /\ tick.calls < MaxEmitCalls
  /\ CanQueue(windowState)
  /\ emitUpdateIn(windowState)
  /\ UNCHANGED <<windowState, EmitOthers>>

\* The running handler returns or awaits: the next segment starts
segmentEnds ==
  /\ tick # FreshTick
  /\ tick' = FreshTick
  /\ UNCHANGED <<windowState, emitQueued, animationFrames, snapshots, EmitOthers>>

\* The handler of 'window-state-changed', at the start of a segment
windowStateChanged(state) ==
  /\ tick = FreshTick
  /\ CanQueue(state)
  /\ state # windowState
  /\ windowState' = state
  /\ emitUpdateIn(state)
  /\ UNCHANGED EmitOthers

\* An animation frame of a window that is not hidden runs the callbacks that
\* were requested: each is emitUpdateNow
animationFrame ==
  /\ tick = FreshTick
  /\ windowState # "hidden"
  /\ animationFrames > 0
  /\ snapshots + animationFrames <= MaxSnapshots
  /\ animationFrames' = 0
  /\ emitQueued' = FALSE
  /\ snapshots' = snapshots + animationFrames
  /\ UNCHANGED <<windowState, tick, EmitOthers>>

NextEmitUpdate ==
  \/ emitUpdate
  \/ segmentEnds
  \/ \E state \in WindowStates : windowStateChanged(state)
  \/ animationFrame

SpecEmitUpdate == InitEmitUpdate /\ [][NextEmitUpdate]_vars

(***************************************************************************)
(* Properties of the notifications                                         *)
(***************************************************************************)
\* C26: the emitUpdate calls of one synchronous segment produce at most one
\* snapshot, emitted at once or by the animation-frame callback they
\* queued, whatever the state of the window.
C26_OneSnapshotPerSegment == tick.emitted + tick.queued <= 1

\* C26, as the code has it: in a window that is not hidden the emitUpdate
\* calls of one segment emit nothing themselves and queue at most one
\* animation-frame callback; in a hidden window every call emits a
\* snapshot at once and queues nothing.
C26_CoalescedUnlessHidden ==
  IF windowState = "hidden"
  THEN tick.emitted = tick.calls /\ tick.queued = 0
  ELSE tick.emitted = 0 /\ tick.queued <= 1

\* Three calls in one segment of a visible window queued one callback.
C26_Witness ==
  /\ windowState # "hidden"
  /\ tick.calls = MaxEmitCalls
  /\ tick.queued = 1
  /\ animationFrames = 1

(***************************************************************************)
(* RETRY ACTIONS: signInStore.onDidAuthenticate, emitRetryAction,          *)
(* onWantRetryAction                                                       *)
(***************************************************************************)
NumSignIns == 3   \* sign-ins that authenticate

RetryOthers == <<baseVars, bannerVars, emitVars, repoVars, rebuildVars>>

SignIns == 1..NumSignIns
\* The events of the emitter that carry a retry action or an error
Events == {"did-want-retry", "did-error"}
NotAuthenticated == [pc |-> "none", retryAction |-> FALSE]

InitRetry ==
  /\ signIns = [s \in SignIns |-> NotAuthenticated]
  /\ received = [e \in Events |-> [s \in SignIns |-> 0]]

InitRetryAction ==
  BaseIdle /\ BannerIdle /\ EmitIdle /\ InitRetry /\ RepoIdle /\ RebuildIdle

\* this.emitter.emit(event, retryAction of sign-in s): every listener
\* registered for the event is called once
emit(event, s) == [received EXCEPT ![event][s] = @ + 1]

emitRetryAction(s) == emit("did-error", s)

\* The handler of signInStore.onDidAuthenticate up to await _addAccount
onDidAuthenticate(s, retryAction) ==
  /\ signIns[s] = NotAuthenticated
  /\ signIns' = [signIns EXCEPT ![s] =
                   [pc |-> "addAccount", retryAction |-> retryAction]]
  /\ UNCHANGED <<received, RetryOthers>>

\* _addAccount has settled: the handler sets the timer of the retry action
\* if there is one, or ends; it ends as well when _addAccount throws
addAccountSettles(s, added) ==
  /\ signIns[s].pc = "addAccount"
  /\ signIns' = [signIns EXCEPT ![s].pc =
       IF ~added THEN "rejected"
       ELSE IF signIns[s].retryAction THEN "setTimeout"
       ELSE "done"]
  /\ UNCHANGED <<received, RetryOthers>>

\* The timer of 100 ms fires: emitRetryAction
timeoutFires(s) ==
  /\ signIns[s].pc = "setTimeout"
  /\ signIns' = [signIns EXCEPT ![s].pc = "done"]
  /\ received' = emitRetryAction(s)
  /\ UNCHANGED RetryOthers

NextRetryAction ==
  \/ \E s \in SignIns, retryAction \in BOOLEAN : onDidAuthenticate(s, retryAction)
  \/ \E s \in SignIns, added \in BOOLEAN : addAccountSettles(s, added)
  \/ \E s \in SignIns : timeoutFires(s)

SpecRetryAction == InitRetryAction /\ [][NextRetryAction]_vars

(***************************************************************************)
(* Properties of the retry actions                                         *)
(***************************************************************************)
\* C27: the retry action of a sign-in is handed exactly once to the
\* listeners of onWantRetryAction, after the account has been added: never
\* before, never twice, and once when the handler of the sign-in is done.
C27_RetryActionDeliveredOnce ==
  \A s \in SignIns :
    /\ received["did-want-retry"][s] <= 1
    /\ received["did-want-retry"][s] = 1 => signIns[s].pc = "done"
    /\ signIns[s].pc = "done" /\ signIns[s].retryAction
         => received["did-want-retry"][s] = 1

(***************************************************************************)
(* MISSING AND REMOVED REPOSITORIES: _refreshRepository, _selectRepository *)
(* of a missing repository, _removeRepositories                            *)
(***************************************************************************)
NumRefreshes == 2   \* _refreshRepository calls in flight at a time

RepoOthers == <<baseVars, bannerVars, emitVars, retryVars, rebuildVars>>

Refreshes == 1..NumRefreshes
NoRefresh == [repo |-> "none", pc |-> "none"]

InitRepo ==
  /\ repositories = [r \in Repos |-> "present"]
  /\ pathOnDisk = [r \in Repos |-> TRUE]
  /\ gitStoreCache = {}
  /\ refreshes = [c \in Refreshes |-> NoRefresh]
  /\ removal = Null

InitRepositories ==
  BaseIdle /\ BannerIdle /\ EmitIdle /\ RetryIdle /\ InitRepo /\ RebuildIdle

\* repositoriesStore.updateRepositoryMissing(repository, missing)
updateRepositoryMissing(r, missing) ==
  IF repositories[r] = "removed" THEN repositories
  ELSE [repositories EXCEPT ![r] = IF missing THEN "missing" ELSE "present"]

\* _refreshRepository of the repository object that the store holds, up to
\* the await of pathExists
refreshRepository(c, r) ==
  /\ refreshes[c] = NoRefresh
  /\ repositories[r] # "removed"
  /\ refreshes' = IF repositories[r] = "missing" THEN refreshes
                  ELSE [refreshes EXCEPT ![c] = [repo |-> r, pc |-> "pathExists"]]
  /\ UNCHANGED <<repositories, pathOnDisk, gitStoreCache, removal, RepoOthers>>

\* pathExists has settled: the repository is flagged missing, or a GitStore
\* is taken from the cache and _loadStatus is called
pathExistsArrives(c) ==
  /\ refreshes[c].pc = "pathExists"
  /\ LET r == refreshes[c].repo
     IN IF ~pathOnDisk[r]
        THEN /\ repositories' = updateRepositoryMissing(r, TRUE)
             /\ refreshes' = [refreshes EXCEPT ![c] = NoRefresh]
             /\ UNCHANGED gitStoreCache
        ELSE /\ gitStoreCache' = gitStoreCache \cup {r}
             /\ refreshes' = [refreshes EXCEPT ![c].pc = "loadStatus"]
             /\ UNCHANGED repositories
  /\ UNCHANGED <<pathOnDisk, removal, RepoOthers>>

\* _loadStatus has settled: without a status the repository is flagged
\* missing, with one gitStore.loadBranches is called
statusArrives(c, status) ==
  /\ refreshes[c].pc = "loadStatus"
  /\ status => pathOnDisk[refreshes[c].repo]
  /\ LET r == refreshes[c].repo
     IN IF ~status
        THEN /\ repositories' = updateRepositoryMissing(r, TRUE)
             /\ refreshes' = [refreshes EXCEPT ![c] = NoRefresh]
        ELSE /\ refreshes' = [refreshes EXCEPT ![c].pc = "loadBranches"]
             /\ UNCHANGED repositories
  /\ UNCHANGED <<pathOnDisk, gitStoreCache, removal, RepoOthers>>

\* The rest of _refreshRepository: branches, remotes, section, indicators
refreshCompletes(c) ==
  /\ refreshes[c].pc = "loadBranches"
  /\ refreshes' = [refreshes EXCEPT ![c] = NoRefresh]
  /\ UNCHANGED <<repositories, pathOnDisk, gitStoreCache, removal, RepoOthers>>

\* _selectRepository of a repository that is flagged missing
selectMissingRepository(r) ==
  /\ repositories[r] = "missing"
  /\ r \in gitStoreCache
  /\ gitStoreCache' = gitStoreCache \ {r}
  /\ UNCHANGED <<repositories, pathOnDisk, refreshes, removal, RepoOthers>>

\* The user relocates a missing repository or clones it again
relocate(r) ==
  /\ repositories[r] = "missing"
  /\ repositories' = updateRepositoryMissing(r, FALSE)
  /\ pathOnDisk' = [pathOnDisk EXCEPT ![r] = TRUE]
  /\ UNCHANGED <<gitStoreCache, refreshes, removal, RepoOthers>>

\* The directory of a repository is deleted or moved away
pathDisappears(r) ==
  /\ pathOnDisk[r]
  /\ pathOnDisk' = [pathOnDisk EXCEPT ![r] = FALSE]
  /\ UNCHANGED <<repositories, gitStoreCache, refreshes, removal, RepoOthers>>

\* _removeRepositories up to its first await
removeRepositories(rs) ==
  /\ removal = Null
  /\ rs # {}
  /\ \A r \in rs : repositories[r] # "removed"
  /\ removal' = [repositoryIDs |-> rs]
  /\ UNCHANGED <<repositories, pathOnDisk, gitStoreCache, refreshes, RepoOthers>>

\* repositoriesStore.removeRepository(id) of the next id has settled
removeRepositoryArrives(r) ==
  /\ removal # Null
  /\ r \in removal.repositoryIDs
  /\ repositories' = [repositories EXCEPT ![r] = "removed"]
  /\ removal' = [repositoryIDs |-> removal.repositoryIDs \ {r}]
  /\ UNCHANGED <<pathOnDisk, gitStoreCache, refreshes, RepoOthers>>

\* repositoriesStore.getAll() has settled: the foldout, and the end
removeRepositoriesCompletes ==
  /\ removal # Null
  /\ removal.repositoryIDs = {}
  /\ removal' = Null
  /\ UNCHANGED <<repositories, pathOnDisk, gitStoreCache, refreshes, RepoOthers>>

NextRepositories ==
  \/ \E c \in Refreshes, r \in Repos : refreshRepository(c, r)
  \/ \E c \in Refreshes : pathExistsArrives(c)
  \/ \E c \in Refreshes, status \in BOOLEAN : statusArrives(c, status)
  \/ \E c \in Refreshes : refreshCompletes(c)
  \/ \E r \in Repos : selectMissingRepository(r)
  \/ \E r \in Repos : relocate(r)
  \/ \E r \in Repos : pathDisappears(r)
  \/ \E rs \in SUBSET Repos : removeRepositories(rs)
  \/ \E r \in Repos : removeRepositoryArrives(r)
  \/ removeRepositoriesCompletes

SpecRepositories == InitRepositories /\ [][NextRepositories]_vars

(***************************************************************************)
(* Properties of missing and removed repositories                          *)
(***************************************************************************)
\* A step in which call c issues a command-layer call: _loadStatus after
\* pathExists, gitStore.loadBranches after _loadStatus
IssuesCommand(c) ==
  \/ refreshes[c].pc = "pathExists" /\ refreshes'[c].pc = "loadStatus"
  \/ refreshes[c].pc = "loadStatus" /\ refreshes'[c].pc = "loadBranches"

\* C28: a _refreshRepository that finds the repository missing flags it and
\* stops, and no command-layer call is issued against a repository while it
\* is flagged missing.
C28_NoCommandAgainstMissing ==
  [][\A c \in Refreshes :
       /\ IssuesCommand(c) => repositories[refreshes[c].repo] # "missing"
       /\ (/\ refreshes[c].pc = "pathExists"
           /\ refreshes'[c] # refreshes[c]
           /\ ~pathOnDisk[refreshes[c].repo])
            => /\ refreshes'[c] = NoRefresh
               /\ repositories'[refreshes[c].repo] # "present"]_vars

\* C29: once _removeRepositories has completed, the cache holds no GitStore
\* of a removed repository.
C29_RemovedRepositoryHasNoGitStore ==
  removal = Null =>
    \A r \in Repos : repositories[r] = "removed" => r \notin gitStoreCache

(***************************************************************************)
(* SKETCH FILES AFTER CHECKOUT, PULL AND MERGE:                            *)
(* _updateKactusFilesAfterCheckout, _checkoutBranch, performPull,          *)
(* _mergeBranch, for one repository                                        *)
(***************************************************************************)
NumRebuilds == 2      \* operations in flight at a time
NumKactusFiles == 2   \* parsed Sketch files of the repository

RebuildOthers == <<baseVars, bannerVars, emitVars, retryVars, repoVars>>

Rebuilds == 1..NumRebuilds
KactusFiles == 1..NumKactusFiles
PrimaryOperations == {"checkout", "pull", "merge"}
NotStarted ==
  [kind |-> "none", pc |-> "none", pending |-> {}, failed |-> 0, logged |-> 0,
   refreshed |-> FALSE]

InitRebuild ==
  /\ rebuilds = [o \in Rebuilds |-> NotStarted]
  /\ indicators = [k \in {"checkout", "pull"} |-> Null]

InitRebuildSketchFiles ==
  BaseIdle /\ BannerIdle /\ EmitIdle /\ RetryIdle /\ RepoIdle /\ InitRebuild

\* updateCheckoutProgress / updatePushPullFetchProgress of the operation
updateProgress(kind, progress) ==
  IF kind = "merge" THEN indicators
  ELSE [indicators EXCEPT ![kind] = progress]

\* _checkoutBranch, performPull or _mergeBranch up to the await of the
\* command: checkoutBranch, pullRepo, gitStore.merge. A pull runs inside
\* withPushPull, so there is one at a time.
operationBegins(o, kind) ==
  /\ rebuilds[o] = NotStarted
  /\ kind = "pull" => \A p \in Rebuilds :
       rebuilds[p].kind = "pull" => rebuilds[p].pc \in {"done", "rejected"}
  /\ rebuilds' = [rebuilds EXCEPT ![o] = [NotStarted EXCEPT !.kind = kind, !.pc = "git"]]
  /\ indicators' = IF kind = "pull" THEN updateProgress(kind, [title |-> "Pulling"])
                   ELSE indicators
  /\ UNCHANGED RebuildOthers

\* The command has settled. Checkout and pull show 'Refreshing Repository'
\* and await _refreshRepository; a merge starts the imports of the parsed
\* files.
commandArrives(o) ==
  /\ rebuilds[o].pc = "git"
  /\ LET kind == rebuilds[o].kind
     IN IF kind = "merge"
        THEN /\ rebuilds' = [rebuilds EXCEPT ![o].pc = "import",
                                             ![o].pending = KactusFiles]
             /\ UNCHANGED indicators
        ELSE /\ rebuilds' = [rebuilds EXCEPT ![o].pc = "refresh"]
             /\ indicators' =
                  updateProgress(kind, [title |-> "Refreshing Repository"])
  /\ UNCHANGED RebuildOthers

\* _refreshRepository has settled. A merge ends here; checkout and pull show
\* 'Refreshing Sketch Files' and start _updateKactusFilesAfterCheckout.
refreshArrives(o) ==
  /\ rebuilds[o].pc = "refresh"
  /\ LET kind == rebuilds[o].kind
     IN IF kind = "merge"
        THEN /\ rebuilds' = [rebuilds EXCEPT ![o].pc = "done",
                                             ![o].refreshed = TRUE]
             /\ UNCHANGED indicators
        ELSE /\ rebuilds' = [rebuilds EXCEPT ![o].pc = "import",
                                             ![o].pending = KactusFiles,
                                             ![o].refreshed = TRUE]
             /\ indicators' =
                  updateProgress(kind, [title |-> "Refreshing Sketch Files"])
  /\ UNCHANGED RebuildOthers

\* An import whose failure nothing catches.
importFailsUncaught(op, f) ==
  [op EXCEPT !.failed = @ + 1, !.pending = {}, !.pc = "rejected"]

\* importSketchFile of file f rejects: _updateKactusFilesAfterCheckout
\* catches and logs per file; _mergeBranch catches and logs the rejection of
\* Promise.all and goes on without the other imports.
importFails(op, f) ==
  IF op.kind = "merge"
  THEN [op EXCEPT !.failed = @ + 1, !.logged = @ + 1, !.pending = {}]
  ELSE [op EXCEPT !.failed = @ + 1, !.logged = @ + 1, !.pending = @ \ {f}]

\* The import of file f has settled. After the last one a merge awaits
\* _refreshRepository, checkout and pull await the rimraf of the files that
\* are gone. A rejection that leaves the operation runs the finally block.
importSettles(o, f, ok) ==
  /\ rebuilds[o].pc = "import"
  /\ f \in rebuilds[o].pending
  /\ LET op == rebuilds[o]
         settled == IF ok THEN [op EXCEPT !.pending = @ \ {f}]
                    ELSE importFails(op, f)
         next == IF settled.pc = "import" /\ settled.pending = {}
                 THEN [settled EXCEPT !.pc =
                         IF op.kind = "merge" THEN "refresh" ELSE "rimraf"]
                 ELSE settled
     IN /\ rebuilds' = [rebuilds EXCEPT ![o] = next]
        /\ indicators' = IF next.pc = "rejected"
                         THEN updateProgress(op.kind, Null)
                         ELSE indicators
  /\ UNCHANGED RebuildOthers

\* The end of _updateKactusFilesAfterCheckout. A checkout runs its finally
\* block and returns; a pull shows 'Fast-forwarding branches' and awaits
\* fastForwardBranches.
rebuildCompletes(o) ==
  /\ rebuilds[o].pc = "rimraf"
  /\ LET kind == rebuilds[o].kind
     IN IF kind = "checkout"
        THEN /\ rebuilds' = [rebuilds EXCEPT ![o].pc = "done"]
             /\ indicators' = updateProgress(kind, Null)
        ELSE /\ rebuilds' = [rebuilds EXCEPT ![o].pc = "fastForward"]
             /\ indicators' =
                  updateProgress(kind, [title |-> "Fast-forwarding branches"])
  /\ UNCHANGED RebuildOthers

\* fastForwardBranches has settled: the finally block of performPull
fastForwardArrives(o) ==
  /\ rebuilds[o].pc = "fastForward"
  /\ rebuilds' = [rebuilds EXCEPT ![o].pc = "done"]
  /\ indicators' = updateProgress("pull", Null)
  /\ UNCHANGED RebuildOthers

NextRebuildSketchFiles ==
  \/ \E o \in Rebuilds, kind \in PrimaryOperations : operationBegins(o, kind)
  \/ \E o \in Rebuilds : commandArrives(o)
  \/ \E o \in Rebuilds : refreshArrives(o)
  \/ \E o \in Rebuilds, f \in KactusFiles, ok \in BOOLEAN : importSettles(o, f, ok)
  \/ \E o \in Rebuilds : rebuildCompletes(o)
  \/ \E o \in Rebuilds : fastForwardArrives(o)

SpecRebuildSketchFiles == InitRebuildSketchFiles /\ [][NextRebuildSketchFiles]_vars

(***************************************************************************)
(* Properties of the rebuild of the Sketch files                           *)
(***************************************************************************)
\* C30: an import of a Sketch file that fails after checkout, pull or merge
\* is logged and the operation goes on: it never ends with a rejection, and
\* in the step in which it ends the repository has been refreshed and the
\* progress of the operation is cleared.
C30_RebuildFailureSwallowed ==
  /\ [](\A o \in Rebuilds :
          /\ rebuilds[o].pc # "rejected"
          /\ rebuilds[o].failed > 0 => rebuilds[o].logged > 0)
  /\ [][\A o \in Rebuilds :
          rebuilds[o].pc # "done" /\ rebuilds'[o].pc = "done"
            => /\ rebuilds'[o].refreshed
               /\ rebuilds[o].kind # "merge"
                    => indicators'[rebuilds[o].kind] = Null]_vars

\* A checkout, a pull or a merge has ended after an import failed.
C30_Witness ==
  \E o, p \in Rebuilds :
    /\ rebuilds[o].pc = "done" /\ rebuilds[o].failed > 0
    /\ rebuilds[o].kind = "checkout"
    /\ rebuilds[p].pc = "done" /\ rebuilds[p].failed > 0
    /\ rebuilds[p].kind \in {"pull", "merge"}

(***************************************************************************)
(* Commits and Sketch-file operations at their gates                       *)
(***************************************************************************)
\* Parses and imports of file f of repository r that are in flight.
FileCalls(r, f) == {t \in InFlight(FileOps, r) : task[t].file = f}

C32_OneParseOrImportPerFile ==
  \A r \in Repos : \A f \in Files : Cardinality(FileCalls(r, f)) <= 1

(***************************************************************************)
(* THE COMMIT SELECTION: updateOrSelectFirstCommit, clearSelectedCommit,   *)
(* _loadChangedFilesForCurrentSelection                                    *)
(***************************************************************************)
\* What getChangedFiles returns for a commit.
ChangedFilesOf(sha) == IF sha = "s1" THEN <<"a">> ELSE <<"s", "a">>

\* The commitSHAs lists a compare hands to updateOrSelectFirstCommit.
CommitLists == {<< >>, <<"s1">>, <<"s2">>, <<"s1", "s2">>, <<"s2", "s1">>}

\* clearSelectedCommit
clearSelectedCommit ==
  [sha |-> "none", file |-> "none", changedFiles |-> << >>,
   diff |-> NoDiff, loadingDiff |-> 0]

\* The changed-files load loadId: state is the object repositoryStateCache.get
\* returned when the load began; the cache replaces that object on every
\* update (which is why _changeFileSelection reads the cache again after its
\* await), so it stays as it was.
ChangedFilesLoad(loadId, state) ==
  loadId :> [slice |-> "changedFiles", state |-> state, sha |-> state.sha,
             pc |-> "loading", preview |-> "none"]

\* _loadChangedFilesForCurrentSelection up to the await of getChangedFiles
loadChangedFilesForCurrentSelection ==
  /\ sel.commitSelection.sha # "none"
  /\ nextDiffId < MaxDiffIds
  /\ nextDiffId' = nextDiffId + 1
  /\ loads' = loads @@ ChangedFilesLoad(nextDiffId + 1, sel.commitSelection)
  /\ UNCHANGED <<sel, world, DiffOthers>>

\* _loadChangedFilesForCurrentSelection after the await: nothing when the
\* operation failed; otherwise currentSHA is compared with
\* state.commitSelection.sha, the list is written with the first file of the
\* commit when state had no file selected, and _changeFileSelection runs up
\* to its own await.
changedFilesArrive(id, failed) ==
  /\ id \in DOMAIN loads
  /\ loads[id].slice = "changedFiles"
  /\ LET l == loads[id]
         state == l.state
         currentSHA == l.sha
         changedFiles == ChangedFilesOf(currentSHA)
         noFileSelected == state.file = "none"
         firstFileOrDefault ==
           IF noFileSelected /\ changedFiles # << >> THEN changedFiles[1]
           ELSE state.file
         diffId == nextDiffId + 1
         rest == [i \in DOMAIN loads \ {id} |-> loads[i]]
     IN IF failed \/ currentSHA # state.sha
        THEN loads' = rest /\ UNCHANGED <<sel, nextDiffId>>
        ELSE IF firstFileOrDefault = "none"
        THEN /\ sel' = [sel EXCEPT !.commitSelection.file = firstFileOrDefault,
                                   !.commitSelection.changedFiles = changedFiles,
                                   !.commitSelection.diff = NoDiff,
                                   !.commitSelection.loadingDiff = 0]
             /\ loads' = rest
             /\ UNCHANGED nextDiffId
        ELSE /\ nextDiffId < MaxDiffIds
             /\ nextDiffId' = diffId
             /\ IF sel.commitSelection.sha = "none"
                THEN /\ sel' = [sel EXCEPT
                                  !.commitSelection.file = firstFileOrDefault,
                                  !.commitSelection.changedFiles = changedFiles,
                                  !.commitSelection.diff = NoDiff,
                                  !.commitSelection.loadingDiff = 0]
                     /\ loads' = rest
                ELSE /\ sel' = [sel EXCEPT
                                  !.commitSelection.file = firstFileOrDefault,
                                  !.commitSelection.changedFiles = changedFiles,
                                  !.commitSelection.diff = NoDiff,
                                  !.commitSelection.loadingDiff = diffId]
                     /\ loads' = rest @@ NewLoad(diffId, "commitSelection",
                                                 firstFileOrDefault, 0,
                                                 sel.commitSelection.sha,
                                                 DiffKind(firstFileOrDefault))
  /\ UNCHANGED <<world, DiffOthers>>

\* A selection step that clears a commit that is not in the list and selects
\* nothing in its place.
updateOrSelectFirstCommitOnlyClears(commitSHAs) ==
  /\ sel' = [sel EXCEPT !.commitSelection =
               IF \E i \in DOMAIN commitSHAs : commitSHAs[i] = @.sha
               THEN @ ELSE clearSelectedCommit]
  /\ UNCHANGED <<loads, nextDiffId, world, DiffOthers>>

\* updateOrSelectFirstCommit: a selection that is not in the list is cleared;
\* with no selection left and a list that is not empty, _changeCommitSelection
\* selects the first commit and _loadChangedFilesForCurrentSelection starts.
updateOrSelectFirstCommit(commitSHAs) ==
  /\ LET index == {i \in DOMAIN commitSHAs :
                     commitSHAs[i] = sel.commitSelection.sha}
         cleared == sel.commitSelection.sha # "none" /\ index = {}
         selectedSHA == IF cleared THEN "none" ELSE sel.commitSelection.sha
     IN IF selectedSHA = "none" /\ Len(commitSHAs) > 0
        THEN /\ nextDiffId < MaxDiffIds
             /\ nextDiffId' = nextDiffId + 1
             /\ sel' = [sel EXCEPT !.commitSelection =
                          [clearSelectedCommit EXCEPT !.sha = commitSHAs[1]]]
             /\ loads' = loads @@
                  ChangedFilesLoad(nextDiffId + 1, sel'.commitSelection)
        ELSE /\ sel' = [sel EXCEPT !.commitSelection =
                          IF cleared THEN clearSelectedCommit ELSE @]
             /\ UNCHANGED <<loads, nextDiffId>>
  /\ UNCHANGED <<world, DiffOthers>>

NextCommitSelection ==
  \/ \E sha \in Shas : changeCommitSelection(sha)
  \/ \E commitSHAs \in CommitLists : updateOrSelectFirstCommit(commitSHAs)
  \/ loadChangedFilesForCurrentSelection
  \/ \E id \in DOMAIN loads, failed \in BOOLEAN : changedFilesArrive(id, failed)
  \/ \E file \in FileIds : changeFileSelection(file)
  \/ \E id \in DOMAIN loads : commitDiffArrives(id)
  \/ \E id \in DOMAIN loads : sketchPreviewCallback(id)

SpecCommitSelection == InitDiffLoads /\ [][NextCommitSelection]_vars

(***************************************************************************)
(* Properties of the commit selection                                      *)
(***************************************************************************)
\* C33: a changed-file list that arrives after the commit selection has
\* changed is discarded: the commitSelection slice keeps the file, the
\* changedFiles and the diff of the newer selection.
C33_StaleChangedFilesDiscarded ==
  [][\A id \in DOMAIN loads :
       /\ loads[id].slice = "changedFiles"
       /\ id \notin DOMAIN loads'
       /\ loads[id].sha # sel.commitSelection.sha
       => sel'.commitSelection = sel.commitSelection]_vars

\* C39: after updateOrSelectFirstCommit(repository, commitSHAs) the selected
\* commit is a member of commitSHAs when the list is not empty and null when
\* it is empty; a selection that is in the list is left as it was.
C39_SelectionIsInTheList ==
  [][\A commitSHAs \in CommitLists :
       updateOrSelectFirstCommit(commitSHAs) =>
         /\ IF commitSHAs = << >>
            THEN sel'.commitSelection.sha = "none"
            ELSE \E i \in DOMAIN commitSHAs :
                   sel'.commitSelection.sha = commitSHAs[i]
         /\ (\E i \in DOMAIN commitSHAs :
               sel.commitSelection.sha = commitSHAs[i])
            => sel'.commitSelection = sel.commitSelection]_vars

\* A list that does not hold the selected commit has been applied: the first
\* commit of the list is selected and its changed files are being loaded.
C39_Witness ==
  /\ sel.commitSelection.sha = "s2"
  /\ sel.commitSelection.file = "none"
  /\ \E id \in DOMAIN loads :
       /\ loads[id].slice = "changedFiles"
       /\ loads[id].sha = "s2"
       /\ loads[id].state.changedFiles = << >>
  /\ \E id \in DOMAIN loads :
       /\ loads[id].slice = "commitSelection"
       /\ loads[id].sha = "s1"

(***************************************************************************)
(* THE HISTORY VIEW: _executeCompare with a History action, on one         *)
(* repository whose compare state carries the cached tip and commitSHAs    *)
(***************************************************************************)
HistoryRepo == "r1"
HistoryTips == Tips \cup {"unborn"}
\* tip.kind === TipState.Valid
IsValid(tip) == tip \notin {"detached", "unborn"}
\* currentSha: the SHA of a valid or detached tip, null otherwise
currentShaOf(tip) == IF tip = "unborn" THEN "none" ELSE tip
\* The commits getCompareCommits returns in Behind mode, one per commit behind
CompareCommits(behind) == [i \in 1..behind |-> "s2"]
\* The batches loadCommitBatch('HEAD') returns
CommitBatches == {<<"s1">>, <<"s2", "s1">>}

InitHistoryView ==
  /\ compareState = [r \in Repos |-> [formState |-> History,
                                      mergeStatus |-> NoMergeStatus,
                                      tip |-> "none",
                                      commitSHAs |-> << >>]]
  /\ currentMergeTreePromise = NoPromise
  /\ cmp = [c \in CompareCalls |-> IdleCall]
  /\ merges = {}
  /\ gitTip = [r \in Repos |-> "t1"]

InitExecuteCompare == GateIdle /\ FFIdle /\ DiffIdle /\ InitHistoryView
  /\ ProgIdle /\ PollIdle /\ PolicyIdle /\ AuxIdle

\* A History action that always loads the commits.
executeCompareAlwaysLoads(c, r) ==
  /\ cmp[c] = IdleCall
  /\ cmp' = [cmp EXCEPT ![c] = [repo |-> r, branch |-> "HEAD",
                                currentSha |-> currentShaOf(gitTip[r])]]
  /\ UNCHANGED <<compareState, currentMergeTreePromise, merges, gitTip, CmpOthers>>

\* _executeCompare with a History action up to the await of
\* gitStore.loadCommitBatch: nothing is loaded when the tip is the cached one,
\* the form is History and there are commits.
executeCompare(c, r) ==
  /\ cmp[c] = IdleCall
  /\ LET currentSha == currentShaOf(gitTip[r])
         formState == compareState[r].formState
         commitSHAs == compareState[r].commitSHAs
         previousTip == compareState[r].tip
         tipIsUnchanged == /\ currentSha # "none"
                           /\ previousTip # "none"
                           /\ currentSha = previousTip
     IN IF tipIsUnchanged /\ formState.kind = "History" /\ Len(commitSHAs) > 0
        THEN UNCHANGED cmp
        ELSE cmp' = [cmp EXCEPT ![c] = [repo |-> r, branch |-> "HEAD",
                                       currentSha |-> currentSha]]
  /\ UNCHANGED <<compareState, currentMergeTreePromise, merges, gitTip, CmpOthers>>

\* _executeCompare with a History action after the await: the batch, or null
loadCommitBatchArrives(c, found, commits) ==
  /\ cmp[c] # IdleCall
  /\ cmp[c].branch = "HEAD"
  /\ cmp' = [cmp EXCEPT ![c] = IdleCall]
  /\ IF ~found
     THEN UNCHANGED compareState
     ELSE compareState' = [compareState EXCEPT
            ![cmp[c].repo].tip = cmp[c].currentSha,
            ![cmp[c].repo].formState = History,
            ![cmp[c].repo].commitSHAs = commits]
  /\ UNCHANGED <<currentMergeTreePromise, merges, gitTip, CmpOthers>>

\* updateCompareToBranch after the await, with the commitSHAs it writes:
\* compareArrives on a compare state that carries them.
compareCommitsArrive(c, found, behind) ==
  /\ cmp[c] # IdleCall
  /\ cmp[c].branch \in Branches
  /\ cmp' = [cmp EXCEPT ![c] = IdleCall]
  /\ LET r == cmp[c].repo
         branch == cmp[c].branch
         tip == gitTip[r]
         formState == [kind |-> "Compare", comparisonBranch |-> branch,
                       behind |-> behind]
         mergeTreePromise == [repo |-> r, tip |-> tip, branch |-> branch]
         compared(mergeStatus) ==
           [compareState EXCEPT ![r].formState = formState,
                                ![r].commitSHAs = CompareCommits(behind),
                                ![r].mergeStatus = mergeStatus]
     IN IF ~found
        THEN UNCHANGED <<compareState, currentMergeTreePromise, merges>>
        ELSE IF mergeTreePending
        THEN /\ compareState' = compared(Loading)
             /\ UNCHANGED <<currentMergeTreePromise, merges>>
        ELSE IF IsValid(tip) /\ behind > 0
        THEN /\ compareState' = compared(Loading)
             /\ merges' = merges \cup {mergeTreePromise}
             /\ currentMergeTreePromise' = mergeTreePromise
        ELSE /\ compareState' = compared(NoMergeStatus)
             /\ UNCHANGED <<currentMergeTreePromise, merges>>
  /\ UNCHANGED <<gitTip, CmpOthers>>

NextExecuteCompare ==
  \/ \E c \in CompareCalls : executeCompare(c, HistoryRepo)
  \/ \E c \in CompareCalls, found \in BOOLEAN, commits \in CommitBatches :
       loadCommitBatchArrives(c, found, commits)
  \/ \E c \in CompareCalls, branch \in Branches :
       updateCompareToBranch(c, HistoryRepo, branch)
  \/ \E c \in CompareCalls, found \in BOOLEAN, behind \in 0..1 :
       compareCommitsArrive(c, found, behind)
  \/ \E m \in merges, result \in {"Clean", "Conflicts", "null"} :
       mergeTreeSettles(m, result)
  \/ \E tip \in HistoryTips : checkout(HistoryRepo, tip)

SpecExecuteCompare == InitExecuteCompare /\ [][NextExecuteCompare]_vars

(***************************************************************************)
(* Properties of _executeCompare with a History action                     *)
(***************************************************************************)
\* The tip of r has a SHA and it is the cached one, the form is History and
\* there are commits.
HistoryIsCurrent(r) ==
  /\ currentShaOf(gitTip[r]) # "none"
  /\ currentShaOf(gitTip[r]) = compareState[r].tip
  /\ compareState[r].formState = History
  /\ compareState[r].commitSHAs # << >>

\* C34: _executeCompare with a History action changes nothing and loads no
\* commits when the SHA of the tip is the cached compareState.tip, the form is
\* History and commitSHAs is not empty; in every other case it loads the
\* batch, and a batch that loads sets formState to History, tip to the SHA the
\* call read and commitSHAs to the batch.
C34_HistoryReloadsOnlyWhenStale ==
  [][\A c \in CompareCalls :
       /\ \A r \in Repos :
            executeCompare(c, r) =>
              IF HistoryIsCurrent(r)
              THEN cmp' = cmp /\ compareState' = compareState
              ELSE /\ cmp'[c].repo = r
                   /\ cmp'[c].branch = "HEAD"
                   /\ cmp'[c].currentSha = currentShaOf(gitTip[r])
                   /\ compareState' = compareState
       /\ \A commits \in CommitBatches :
            loadCommitBatchArrives(c, TRUE, commits) =>
              /\ compareState'[cmp[c].repo].formState = History
              /\ compareState'[cmp[c].repo].tip = cmp[c].currentSha
              /\ compareState'[cmp[c].repo].commitSHAs = commits
              /\ compareState'[cmp[c].repo].mergeStatus
                   = compareState[cmp[c].repo].mergeStatus]_vars

\* The history is loaded and current, so a History action returns at once;
\* it was loaded after a comparison had been shown, on a tip that has moved
\* since the first load.
C34_Witness ==
  /\ HistoryIsCurrent(HistoryRepo)
  /\ gitTip[HistoryRepo] = "detached"
  /\ compareState[HistoryRepo].commitSHAs = <<"s2", "s1">>
  /\ compareState[HistoryRepo].mergeStatus # NoMergeStatus

(***************************************************************************)
(* THE GATE AND THE PROGRESS TOGETHER: _push, _pull and _fetch from the    *)
(* entry of withPushPull to its finally, with isPushPullFetchInProgress    *)
(* and pushPullFetchProgress of every repository                           *)
(***************************************************************************)
PushPullOthers ==
  <<emittedErrors, ffVars, diffVars, cmpVars, composed, pollVars, policy, auxVars>>

InitPushPull == InitGates /\ FFIdle /\ DiffIdle /\ CmpIdle /\ InitProg
  /\ PollIdle /\ PolicyIdle /\ AuxIdle

Running(t, r, op, tip, pc) ==
  [task EXCEPT ![t] = [op |-> op, repo |-> r, file |-> "none", tip |-> tip,
                       pc |-> pc]]

\* _push, _pull, _fetch up to the first await inside withPushPull: the
\* publish dialog of performPush, the gate, the throws on a missing remote
\* and on an unborn or detached tip, the first progress value. performFetch
\* does not read the tip.
pushPullFetchStarts(t, r, op, remote, tip, upstream) ==
  /\ task[t].pc = "idle"
  /\ IF op = "push" /\ remote = "null"
     THEN /\ outcome' = "returned"
          /\ UNCHANGED <<repositoryState, task, pushPullFetchProgress>>
     ELSE IF repositoryState[r].isPushPullFetchInProgress
     THEN /\ outcome' = "droppedNetwork"
          /\ UNCHANGED <<repositoryState, task, pushPullFetchProgress>>
     ELSE /\ repositoryState' =
               [repositoryState EXCEPT ![r].isPushPullFetchInProgress = TRUE]
          /\ UNCHANGED outcome
          /\ IF op = "fetch"
             THEN /\ task' = Running(t, r, op, "none", "command")
                  /\ UNCHANGED pushPullFetchProgress
             ELSE IF remote = "null" \/ tip # "Valid"
             THEN /\ task' = Running(t, r, op, tip, "rejected")
                  /\ UNCHANGED pushPullFetchProgress
             ELSE IF op = "pull" /\ upstream
             THEN /\ task' = Running(t, r, op, tip, "getMergeBase")
                  /\ UNCHANGED pushPullFetchProgress
             ELSE /\ task' = Running(t, r, op, tip, "command")
                  /\ pushPullFetchProgress' =
                       [pushPullFetchProgress EXCEPT ![r] = [value |-> 0]]
  /\ UNCHANGED PushPullOthers

\* getMergeBase of performPull returns, and the first progress is written;
\* or it throws, before the try block.
getMergeBaseSettles(t, threw) ==
  /\ task[t].pc = "getMergeBase"
  /\ IF threw
     THEN /\ task' = [task EXCEPT ![t].pc = "rejected"]
          /\ UNCHANGED pushPullFetchProgress
     ELSE /\ task' = [task EXCEPT ![t].pc = "command"]
          /\ pushPullFetchProgress' =
               [pushPullFetchProgress EXCEPT ![task[t].repo] = [value |-> 0]]
  /\ UNCHANGED <<repositoryState, outcome, PushPullOthers>>

\* A progress callback of pushRepo, pullRepo, fetchRemotes or fetch
commandReports(t, k) ==
  /\ task[t].pc = "command"
  /\ pushPullFetchProgress' =
       [pushPullFetchProgress EXCEPT ![task[t].repo] = [value |-> k]]
  /\ UNCHANGED <<repositoryState, task, outcome, PushPullOthers>>

\* The commands have returned: the progress of the refresh is written.
refreshStarts(t) ==
  /\ task[t].pc = "command"
  /\ task' = [task EXCEPT ![t].pc = "refresh"]
  /\ pushPullFetchProgress' =
       [pushPullFetchProgress EXCEPT ![task[t].repo] = [value |-> NumFractions]]
  /\ UNCHANGED <<repositoryState, outcome, PushPullOthers>>

\* A body that ends without clearing the progress.
bodySettlesKeepsProgress(t, threw) ==
  /\ task[t].pc \in {"command", "refresh"}
  /\ task' = [task EXCEPT ![t].pc = IF threw THEN "rejected" ELSE "resolved"]
  /\ UNCHANGED <<pushPullFetchProgress, repositoryState, outcome, PushPullOthers>>

\* The body ends after its last await, or an await in it throws: the finally
\* of performPull and performFetch, and the line after the failable
\* operation of performPush, set the progress to null; then the promise of
\* fn settles.
bodySettles(t, threw) ==
  /\ task[t].pc \in {"command", "refresh"}
  /\ ~(threw /\ task[t].op = "push")
  /\ task' = [task EXCEPT ![t].pc = IF threw THEN "rejected" ELSE "resolved"]
  /\ pushPullFetchProgress' =
       [pushPullFetchProgress EXCEPT ![task[t].repo] = Null]
  /\ UNCHANGED <<repositoryState, outcome, PushPullOthers>>

\* A withPushPull whose flag is cleared only after a body that returned.
withPushPullNoFinally(t) ==
  /\ task[t].pc \in {"rejected", "resolved"}
  /\ repositoryState' = [repositoryState EXCEPT
       ![task[t].repo].isPushPullFetchInProgress = task[t].pc = "rejected"]
  /\ task' = [task EXCEPT ![t] = IdleTask]
  /\ outcome' = IF task[t].pc = "rejected" THEN "threw" ELSE "returned"
  /\ UNCHANGED <<pushPullFetchProgress, PushPullOthers>>

\* The finally of withPushPull, after await fn()
withPushPullFinally(t) ==
  /\ task[t].pc \in {"rejected", "resolved"}
  /\ repositoryState' = [repositoryState EXCEPT
       ![task[t].repo].isPushPullFetchInProgress = FALSE]
  /\ task' = [task EXCEPT ![t] = IdleTask]
  /\ outcome' = IF task[t].pc = "rejected" THEN "threw" ELSE "returned"
  /\ UNCHANGED <<pushPullFetchProgress, PushPullOthers>>

NextPushPull ==
  \/ \E t \in Tasks, r \in Repos, op \in GatedOps, remote \in {"null", "origin"},
        tip \in TipKinds, upstream \in BOOLEAN :
       pushPullFetchStarts(t, r, op, remote, tip, upstream)
  \/ \E t \in Tasks, threw \in BOOLEAN : getMergeBaseSettles(t, threw)
  \/ \E t \in Tasks, k \in Fractions : commandReports(t, k)
  \/ \E t \in Tasks : refreshStarts(t)
  \/ \E t \in Tasks, threw \in BOOLEAN : bodySettles(t, threw)
  \/ \E t \in Tasks : withPushPullFinally(t)

SpecPushPull == InitPushPull /\ [][NextPushPull]_vars

(***************************************************************************)
(* Properties of the gate and the progress                                 *)
(***************************************************************************)
\* C35: in every reachable state the pushPullFetchProgress of a repository
\* is non-null only while its isPushPullFetchInProgress is true.
C35_ProgressOnlyWhileInProgress ==
  \A r \in Repos :
    pushPullFetchProgress[r] # Null
      => repositoryState[r].isPushPullFetchInProgress

\* A pull has written progress and ended with an exception, and its gate is
\* released; a fetch of the other repository is showing progress.
C35_Witness ==
  \E r, q \in Repos :
    /\ r # q
    /\ outcome = "threw"
    /\ ~repositoryState[r].isPushPullFetchInProgress
    /\ pushPullFetchProgress[r] = Null
    /\ pushPullFetchProgress[q] # Null
    /\ \E t \in Tasks : task[t].op = "fetch" /\ task[t].repo = q

\* The tip kinds on which performPush and performPull throw.
NoBranchTips == {"Unborn", "Detached"}

\* A push or pull that threw on its tip ends: it made no command-layer call,
\* the flag is cleared and there is no progress.
EndsAsFailed(t) ==
  /\ task[t].pc = "rejected"
  /\ task[t].tip \in NoBranchTips
  /\ task'[t] = IdleTask
  => /\ outcome' = "threw"
     /\ ~repositoryState'[task[t].repo].isPushPullFetchInProgress
     /\ pushPullFetchProgress'[task[t].repo] = Null

\* C40 as claimed: every _push or _pull on a repository whose tip is unborn
\* or detached fails with an error without calling the command-layer push or
\* pull, and afterwards isPushPullFetchInProgress is false and
\* pushPullFetchProgress is null.
C40_PushPullFailsOnUnbornOrDetached ==
  [][\A t \in Tasks :
       /\ \A r \in Repos, op \in {"push", "pull"}, remote \in {"null", "origin"},
             tip \in NoBranchTips, upstream \in BOOLEAN :
            pushPullFetchStarts(t, r, op, remote, tip, upstream)
              => task'[t].pc = "rejected"
       /\ EndsAsFailed(t)]_vars

\* C40 amended: a _push or _pull on a repository whose tip is unborn or
\* detached that is let through the gate (and, for _push, has a remote), and
\* so starts the function it passes to withPushPull, fails with an error
\* without calling the command-layer push or pull and without writing
\* progress, and when it has ended isPushPullFetchInProgress is false and
\* pushPullFetchProgress is null.
C40_AdmittedPushPullFailsOnUnbornOrDetached ==
  [][\A t \in Tasks :
       /\ (/\ task[t].pc = "idle"
           /\ task'[t].pc # "idle"
           /\ task'[t].op \in {"push", "pull"}
           /\ task'[t].tip \in NoBranchTips)
          => /\ task'[t].pc = "rejected"
             /\ pushPullFetchProgress' = pushPullFetchProgress
       /\ EndsAsFailed(t)]_vars

\* A push on an unborn tip and a pull on a detached tip, on two repositories,
\* have thrown and hold their gates until the finally runs.
C40_Witness ==
  \E t, u \in Tasks :
    /\ task[t].op = "push" /\ task[t].pc = "rejected" /\ task[t].tip = "Unborn"
    /\ task[u].op = "pull" /\ task[u].pc = "rejected" /\ task[u].tip = "Detached"
    /\ repositoryState[task[t].repo].isPushPullFetchInProgress
    /\ pushPullFetchProgress[task[t].repo] = Null

(***************************************************************************)
(* THE STATUS LOAD: _loadStatus with its isLoadingStatus flag              *)
(***************************************************************************)
\* _loadStatus up to the await of getKactusStatus
loadStatusStarts(t, r, skipParsingModifiedSketchFiles) ==
  /\ task[t].pc = "idle"
  /\ repositoryState' = [repositoryState EXCEPT ![r].isLoadingStatus = TRUE]
  /\ task' = [task EXCEPT ![t] =
                [op |-> "loadStatus", repo |-> r, file |-> "none",
                 skip |-> skipParsingModifiedSketchFiles, parsing |-> {},
                 pc |-> "getKactusStatus"]]
  /\ UNCHANGED <<outcome, emittedErrors, GateOthers>>

\* _loadStatus after getKactusStatus: the file list is replaced and the
\* modified files go through isParsing, or updateSketchFiles is awaited.
kactusStatusArrives(t, present, modified) ==
  /\ task[t].pc = "getKactusStatus"
  /\ modified \subseteq present
  /\ LET r == task[t].repo
         modifiedFiles == IF task[t].skip THEN {} ELSE modified
     IN /\ repositoryState' = [repositoryState EXCEPT ![r].files =
               [f \in present |->
                  [FreshFile EXCEPT !.isParsing = f \in modifiedFiles]]]
        /\ task' = [task EXCEPT
               ![t].parsing = modifiedFiles,
               ![t].pc = IF modifiedFiles # {} THEN "parse"
                         ELSE "updateSketchFiles"]
  /\ UNCHANGED <<outcome, emittedErrors, GateOthers>>

\* The parses of the modified files settle: the finally of every isParsing
\* clears its flag; when one was rejected, so is Promise.all and _loadStatus.
parsesSettle(t, rejected) ==
  /\ task[t].pc = "parse"
  /\ repositoryState' = [repositoryState EXCEPT ![task[t].repo].files =
       [f \in DOMAIN @ |-> IF f \in task[t].parsing
                           THEN [@[f] EXCEPT !.isParsing = FALSE] ELSE @[f]]]
  /\ IF rejected
     THEN task' = [task EXCEPT ![t] = IdleTask] /\ outcome' = "threw"
     ELSE task' = [task EXCEPT ![t].pc = "updateSketchFiles"]
          /\ UNCHANGED outcome
  /\ UNCHANGED <<emittedErrors, GateOthers>>

\* repositoriesStore.updateSketchFiles returns; gitStore.loadStatus is awaited
sketchFilesUpdated(t) ==
  /\ task[t].pc = "updateSketchFiles"
  /\ task' = [task EXCEPT ![t].pc = "loadStatus"]
  /\ UNCHANGED <<repositoryState, outcome, emittedErrors, GateOthers>>

\* getKactusStatus or updateSketchFiles rejects: _loadStatus has no catch
\* and no finally.
loadStatusThrows(t) ==
  /\ task[t].pc \in {"getKactusStatus", "updateSketchFiles"}
  /\ task' = [task EXCEPT ![t] = IdleTask]
  /\ outcome' = "threw"
  /\ UNCHANGED <<repositoryState, emittedErrors, GateOthers>>

\* gitStore.loadStatus returns the status, or null: the flag is cleared on
\* both paths.
gitStatusArrives(t, status) ==
  /\ task[t].pc = "loadStatus"
  /\ repositoryState' =
       [repositoryState EXCEPT ![task[t].repo].isLoadingStatus = FALSE]
  /\ task' = [task EXCEPT ![t] = IdleTask]
  /\ outcome' = IF status THEN "returned" ELSE "failed"
  /\ UNCHANGED <<emittedErrors, GateOthers>>

NextLoadStatus ==
  \/ \E t \in Tasks, r \in Repos, skip \in BOOLEAN : loadStatusStarts(t, r, skip)
  \/ \E t \in Tasks, present \in SUBSET Files, modified \in SUBSET Files :
       kactusStatusArrives(t, present, modified)
  \/ \E t \in Tasks, rejected \in BOOLEAN : parsesSettle(t, rejected)
  \/ \E t \in Tasks : sketchFilesUpdated(t)
  \/ \E t \in Tasks : loadStatusThrows(t)
  \/ \E t \in Tasks, status \in BOOLEAN : gitStatusArrives(t, status)

SpecLoadStatus == Init /\ [][NextLoadStatus]_vars

\* C38: isLoadingStatus of a repository is true whenever at least one
\* _loadStatus call for it is in flight and false once none is, also when
\* calls overlap or a step fails.
C38_LoadingStatusWhileInFlight ==
  \A r \in Repos :
    repositoryState[r].isLoadingStatus <=> InFlight({"loadStatus"}, r) # {}

(***************************************************************************)
(* The diff loads under fair scheduling: a diff that is being loaded       *)
(* arrives and a scheduled preview callback runs; the user need not do     *)
(* anything.                                                               *)
(***************************************************************************)
DiffIds == 1..MaxDiffIds

FairDiff ==
  /\ \A id \in DiffIds : WF_vars(commitDiffArrives(id))
  /\ \A id \in DiffIds : WF_vars(changesDiffArrives(id))
  /\ \A id \in DiffIds : WF_vars(sketchPreviewCallback(id))

SpecDiffFair == SpecDiff /\ FairDiff

PreviewPending(id) == id \in DOMAIN loads /\ loads[id].preview = "pending"

NoDiffLoadInFlight == \A id \in DOMAIN loads : loads[id].pc # "loading"

\* C37: the Sketch-preview callback of every diff load eventually stops, by
\* merging the previews or by giving up on another token, and loadingDiff
\* does not stay non-null forever once no diff load is in flight.
C37_PreviewCallbackStops ==
  /\ \A id \in DiffIds : PreviewPending(id) ~> ~PreviewPending(id)
  /\ \A sl \in {"commitSelection", "changesState"} :
       (NoDiffLoadInFlight /\ sel[sl].loadingDiff # 0)
         ~> (~NoDiffLoadInFlight \/ sel[sl].loadingDiff = 0)

(***************************************************************************)
(* The compare view under fair scheduling: every getCompareCommits call    *)
(* returns and every mergeTree promise settles; the user need not trigger  *)
(* anything.                                                               *)
(***************************************************************************)
FairCompare ==
  /\ \A c \in CompareCalls :
       WF_vars(\E found \in BOOLEAN, behind \in 0..1 :
                 compareArrives(c, found, behind))
  /\ \A r \in Repos, tip \in Tips, branch \in Branches :
       WF_vars(\E result \in {"Clean", "Conflicts", "null"} :
                 mergeTreeSettles([repo |-> r, tip |-> tip, branch |-> branch],
                                  result))

SpecCompareFair == SpecCompare /\ FairCompare

\* C36: whenever updateCompareToBranch has set the mergeStatus of a
\* repository to Loading, that status is eventually replaced by a merge
\* result or by null, given that every mergeTree call settles.
C36_LoadingIsReplaced ==
  \A r \in Repos :
    (compareState[r].mergeStatus = Loading)
      ~> (compareState[r].mergeStatus # Loading)

====
